---- MODULE Spec2Model ----
(***************************************************************************)
(* A model of gix, a .gitignore optimizer: the line parser, the pattern    *)
(* analyzer (normalisation, equivalence, conflict) and the optimizer that  *)
(* removes equivalent patterns.  Strings are sequences of one-character    *)
(* strings, so that trimming, slicing and prefix tests are computed the    *)
(* way the Rust code computes them.                                        *)
(***************************************************************************)
EXTENDS Integers, Sequences, FiniteSets, TLC

VARIABLES
    pc,           \* position in the pipeline of the run being modelled
    content,      \* the input text, as the sequence of lines content.lines() yields
    file,         \* GitignoreFile returned by parse_gitignore(content)
    optimized,    \* GitignoreFile returned by optimize_gitignore(file)
    reoptimized,  \* GitignoreFile returned by optimize_gitignore(optimized)
    pattern1,     \* first argument of are_equivalent / are_conflicting
    pattern2,     \* second argument of are_equivalent / are_conflicting
    equivalent,   \* result of are_equivalent(pattern1, pattern2)
    conflicting,  \* result of are_conflicting(pattern1, pattern2)
    duplicates,   \* map returned by file.find_duplicates()
    aggressive,   \* GitignoreFile returned by optimize_gitignore_aggressive(file)
    with_conflicts, \* (file, conflicts) returned by optimize_gitignore_with_conflicts(file)
    text,         \* a raw input text, a sequence of characters
    rendered,     \* text returned by GitignoreFile::to_string of the parsed text
    input_pattern, \* the argument of categorize_pattern
    positions,    \* where in categorize_pattern each categorizer instance is
    categories,   \* what categorize_pattern returned, per categorizer instance
    args,         \* the command-line arguments of run
    fs,           \* the file system: the content of every path, <<>> where no file is
    initial_fs,   \* the file system when run was entered
    effects,      \* what run has printed and done to the file system, in order
    error,        \* the call of run that returned Err, "None" while there is none
    file_analysis \* GitignoreAnalysis returned by analyze_gitignore(file)

vars == <<pc, content, file, optimized, reoptimized,
          pattern1, pattern2, equivalent, conflicting,
          duplicates, aggressive, with_conflicts, text, rendered,
          input_pattern, positions, categories,
          args, fs, initial_fs, effects, error, file_analysis>>

(***************************************************************************)
(* Bounds of the model.                                                    *)
(***************************************************************************)
\* Largest number of lines of an input text.
MaxLines == 3
\* Largest length of a pattern string handed to the analyzer directly.
MaxPatLen == 4
\* Largest number of characters of a raw input text.
MaxTextLen == 5
\* Largest length of the patterns compared with their case variants.
MaxCaseLen == 3
\* Largest number of characters of the file that run reads.
MaxRunTextLen == 3
\* Largest number of lines of the files of the aggressive runs.
MaxAggressiveLines == 5
\* Largest number of lines of the analyzed files.
MaxAnalyzeLines == 4

(***************************************************************************)
(* str primitives of the Rust standard library, on sequences of chars.     *)
(***************************************************************************)
\* char::is_whitespace (White_Space), on the characters a TLA+ string can hold:
\* space, tab, line feed, vertical tab (U+000B), form feed, carriage return,
\* next line (U+0085), no-break space (U+00A0) and ogham space mark (U+1680);
\* the last four are written as the characters themselves.  The other
\* White_Space characters (U+2000..U+200A, U+2028, U+2029, U+202F, U+205F,
\* U+3000) are not accepted in a string.
WhiteSpace == {" ", "\t", "\n", "", "\f", "\r", "", " ", " "}

is_whitespace(ch) == ch \in WhiteSpace

starts_with(s, ch) == Len(s) > 0 /\ s[1] = ch

ends_with(s, ch) == Len(s) > 0 /\ s[Len(s)] = ch

contains(s, ch) == \E i \in 1..Len(s) : s[i] = ch

\* str::contains("**")
contains_globstar(s) == \E i \in 1..(Len(s) - 1) : s[i] = "*" /\ s[i + 1] = "*"

RECURSIVE trim_end(_)
trim_end(s) ==
    IF s = <<>> THEN s
    ELSE IF is_whitespace(s[Len(s)]) THEN trim_end(SubSeq(s, 1, Len(s) - 1))
    ELSE s

RECURSIVE trim_start(_)
trim_start(s) ==
    IF s = <<>> THEN s
    ELSE IF is_whitespace(s[1]) THEN trim_start(Tail(s))
    ELSE s

trim(s) == trim_start(trim_end(s))

RECURSIVE replace(_, _, _)
replace(s, from, to) ==
    IF s = <<>> THEN <<>>
    ELSE <<IF s[1] = from THEN to ELSE s[1]>> \o replace(Tail(s), from, to)

(***************************************************************************)
(* models/gitignore.rs: entries, files and their statistics.               *)
(***************************************************************************)
Pattern(p) == [tag |-> "Pattern", text |-> p]

Comment(c) == [tag |-> "Comment", text |-> c]

Blank == [tag |-> "Blank", text |-> <<>>]

GitignoreEntry_new(original, entry_type, line_number) ==
    [original |-> original, entry_type |-> entry_type, line_number |-> line_number]

is_pattern(entry) == entry.entry_type.tag = "Pattern"

is_comment(entry) == entry.entry_type.tag = "Comment"

is_blank(entry) == entry.entry_type.tag = "Blank"

FileStats_new ==
    [total_lines |-> 0, pattern_lines |-> 0, comment_lines |-> 0,
     blank_lines |-> 0, duplicate_patterns |-> 0]

\* Mutant: a blank line is not counted.
FileStats_update_no_blank(stats, entry) ==
    [stats EXCEPT
        !.total_lines = @ + 1,
        !.pattern_lines = IF is_pattern(entry) THEN @ + 1 ELSE @,
        !.comment_lines = IF is_comment(entry) THEN @ + 1 ELSE @]

FileStats_update(stats, entry) ==
    [stats EXCEPT
        !.total_lines = @ + 1,
        !.pattern_lines = IF is_pattern(entry) THEN @ + 1 ELSE @,
        !.comment_lines = IF is_comment(entry) THEN @ + 1 ELSE @,
        !.blank_lines = IF is_blank(entry) THEN @ + 1 ELSE @]

GitignoreFile_new == [entries |-> <<>>, stats |-> FileStats_new]

add_entry(f, entry) ==
    [entries |-> Append(f.entries, entry), stats |-> FileStats_update(f.stats, entry)]

\* The strings of entries k.. joined by "\n".
RECURSIVE join_originals_from(_, _)
join_originals_from(entries, k) ==
    IF k > Len(entries) THEN <<>>
    ELSE IF k = Len(entries) THEN entries[k].original
    ELSE entries[k].original \o <<"\n">> \o join_originals_from(entries, k + 1)

to_string(f) == join_originals_from(f.entries, 1)

\* The line numbers pushed under key p by the loop of find_duplicates, from entry k on.
RECURSIVE line_numbers_from(_, _, _)
line_numbers_from(entries, k, p) ==
    IF k > Len(entries) THEN <<>>
    ELSE (IF is_pattern(entries[k]) /\ entries[k].entry_type.text = p
          THEN <<entries[k].line_number>> ELSE <<>>)
         \o line_numbers_from(entries, k + 1, p)

\* Mutant: the patterns that occur once are not removed from the map.
find_duplicates_all(f) ==
    LET keys == {f.entries[k].entry_type.text :
                    k \in {i \in 1..Len(f.entries) : is_pattern(f.entries[i])}}
    IN [p \in keys |-> line_numbers_from(f.entries, 1, p)]

\* The map of find_duplicates: a function from pattern strings to line numbers.
find_duplicates(f) ==
    LET keys == {f.entries[k].entry_type.text :
                    k \in {i \in 1..Len(f.entries) : is_pattern(f.entries[i])}}
        retained == {p \in keys : Len(line_numbers_from(f.entries, 1, p)) > 1}
    IN [p \in retained |-> line_numbers_from(f.entries, 1, p)]

(***************************************************************************)
(* core/parser.rs                                                          *)
(***************************************************************************)
\* Mutant: a backslash before "#" does not escape it.
RECURSIVE remove_inline_comment_from_any_hash(_, _, _)
remove_inline_comment_from_any_hash(line, i, escaped) ==
    IF i > Len(line) THEN <<>>
    ELSE IF line[i] = "#" THEN <<>>
    ELSE <<line[i]>> \o remove_inline_comment_from_any_hash(line, i + 1, FALSE)

\* The loop of remove_inline_comment from position i on; escaped is its flag.
RECURSIVE remove_inline_comment_from(_, _, _)
remove_inline_comment_from(line, i, escaped) ==
    IF i > Len(line) THEN <<>>
    ELSE IF escaped THEN <<line[i]>> \o remove_inline_comment_from(line, i + 1, FALSE)
    ELSE IF line[i] = "\\" THEN <<line[i]>> \o remove_inline_comment_from(line, i + 1, TRUE)
    ELSE IF line[i] = "#" THEN <<>>
    ELSE <<line[i]>> \o remove_inline_comment_from(line, i + 1, FALSE)

remove_inline_comment(line) == remove_inline_comment_from(line, 1, FALSE)

\* Mutant: a line is a comment when its first non-blank character is "#".
parse_line_after_indent(line, line_number) ==
    IF trim(line) = <<>> THEN GitignoreEntry_new(line, Blank, line_number)
    ELSE IF starts_with(trim_start(line), "#")
        THEN GitignoreEntry_new(line, Comment(line), line_number)
    ELSE GitignoreEntry_new(line, Pattern(remove_inline_comment(line)), line_number)

parse_line(line, line_number) ==
    IF trim(line) = <<>> THEN GitignoreEntry_new(line, Blank, line_number)
    ELSE IF starts_with(line, "#") /\ ~(Len(line) >= 2 /\ line[1] = "\\" /\ line[2] = "#")
        THEN GitignoreEntry_new(line, Comment(line), line_number)
    ELSE GitignoreEntry_new(line, Pattern(remove_inline_comment(line)), line_number)

\* Mutant: the line number is the 0-based index of enumerate().
RECURSIVE parse_lines_from_zero_based(_, _, _)
parse_lines_from_zero_based(lines, k, f) ==
    IF k > Len(lines) THEN f
    ELSE parse_lines_from_zero_based(lines, k + 1,
                                     add_entry(f, parse_line(lines[k], k - 1)))

\* The loop of parse_gitignore over lines k..Len(lines), appending to f.
RECURSIVE parse_lines_from(_, _, _)
parse_lines_from(lines, k, f) ==
    IF k > Len(lines) THEN f
    ELSE parse_lines_from(lines, k + 1, add_entry(f, parse_line(lines[k], k)))

parse_gitignore(lines) == parse_lines_from(lines, 1, GitignoreFile_new)

\* str::lines from position i on: split at "\n"; a line that ended in "\n" also
\* loses one "\r" before it; cur is the line collected so far.
RECURSIVE lines_from(_, _, _)
lines_from(s, i, cur) ==
    IF i > Len(s) THEN (IF cur = <<>> THEN <<>> ELSE <<cur>>)
    ELSE IF s[i] = "\n"
        THEN <<IF ends_with(cur, "\r") THEN SubSeq(cur, 1, Len(cur) - 1) ELSE cur>>
             \o lines_from(s, i + 1, <<>>)
    ELSE lines_from(s, i + 1, Append(cur, s[i]))

lines(s) == lines_from(s, 1, <<>>)

(***************************************************************************)
(* core/validator.rs                                                       *)
(***************************************************************************)
\* validate_pattern(pattern) is Ok.
validate_pattern(pattern) == trim(pattern) # <<>>

(***************************************************************************)
(* core/pattern_analyzer.rs                                                *)
(***************************************************************************)
\* cfg!(windows): the model is of a non-Windows build.
Windows == FALSE

PatternAnalyzer_default == [normalize_patterns |-> TRUE, case_sensitive |-> TRUE]

\* The slash-collapsing loop of normalize_pattern.
RECURSIVE remove_duplicate_slashes(_)
remove_duplicate_slashes(s) ==
    IF s = <<>> THEN <<>>
    ELSE IF s[1] = "/" /\ Len(s) > 1 /\ s[2] = "/" THEN remove_duplicate_slashes(Tail(s))
    ELSE <<s[1]>> \o remove_duplicate_slashes(Tail(s))

\* char::to_lowercase on ASCII: the letters A..Z fold, the rest is kept.
to_lowercase_char(ch) ==
    LET upper == <<"A", "B", "C", "D", "E", "F", "G", "H", "I", "J", "K", "L", "M",
                   "N", "O", "P", "Q", "R", "S", "T", "U", "V", "W", "X", "Y", "Z">>
        lower == <<"a", "b", "c", "d", "e", "f", "g", "h", "i", "j", "k", "l", "m",
                   "n", "o", "p", "q", "r", "s", "t", "u", "v", "w", "x", "y", "z">>
        at == {i \in 1..Len(upper) : upper[i] = ch}
    IN IF at = {} THEN ch ELSE lower[CHOOSE i \in at : TRUE]

to_lowercase(s) == [i \in 1..Len(s) |-> to_lowercase_char(s[i])]

\* Mutant: normalization also folds the case of the letters.
normalize_pattern_ignore_case(analyzer, pattern) ==
    IF ~analyzer.normalize_patterns THEN pattern
    ELSE LET trimmed == trim_end(pattern)
             separators == IF Windows THEN replace(trimmed, "\\", "/") ELSE trimmed
         IN to_lowercase(remove_duplicate_slashes(separators))

normalize_pattern(analyzer, pattern) ==
    IF ~analyzer.normalize_patterns THEN pattern
    ELSE LET trimmed == trim_end(pattern)
             separators == IF Windows THEN replace(trimmed, "\\", "/") ELSE trimmed
         IN remove_duplicate_slashes(separators)

PatternAnalysis_new(original, normalized) ==
    LET is_negation == starts_with(normalized, "!")
        pattern == IF is_negation THEN Tail(normalized) ELSE normalized
        is_absolute == starts_with(pattern, "/")
        has_wildcards == contains(pattern, "*") \/ contains(pattern, "?") \/ contains(pattern, "[")
        has_globstar == contains_globstar(pattern)
        pattern_type == IF ends_with(pattern, "/") THEN "Directory"
                        ELSE IF has_wildcards \/ contains(pattern, ".") THEN "Both"
                        ELSE "File"
    IN [original |-> original,
        normalized |-> normalized,
        pattern_type |-> pattern_type,
        is_negation |-> is_negation,
        is_absolute |-> is_absolute,
        has_wildcards |-> has_wildcards,
        has_globstar |-> has_globstar,
        matches_files |-> pattern_type \in {"File", "Both"},
        matches_directories |-> pattern_type \in {"Directory", "Both"},
        is_case_sensitive |-> TRUE]

base_pattern(analysis) ==
    IF analysis.is_negation THEN Tail(analysis.normalized) ELSE analysis.normalized

\* Mutant: only the first argument may carry the extra slash.
are_base_patterns_equivalent_one_way(p1, p2) ==
    \/ p1 = p2
    \/ ends_with(p1, "/") /\ p2 = SubSeq(p1, 1, Len(p1) - 1)
    \/ starts_with(p1, "/") /\ p2 = Tail(p1)

\* Mutant: a leading and a trailing slash may both differ.
are_base_patterns_equivalent_both_ends(p1, p2) ==
    LET strip(p) ==
            LET q == IF starts_with(p, "/") THEN Tail(p) ELSE p
            IN IF ends_with(q, "/") THEN SubSeq(q, 1, Len(q) - 1) ELSE q
    IN strip(p1) = strip(p2)

are_base_patterns_equivalent(p1, p2) ==
    \/ p1 = p2
    \/ ends_with(p1, "/") /\ p2 = SubSeq(p1, 1, Len(p1) - 1)
    \/ ends_with(p2, "/") /\ p1 = SubSeq(p2, 1, Len(p2) - 1)
    \/ starts_with(p1, "/") /\ p2 = Tail(p1)
    \/ starts_with(p2, "/") /\ p1 = Tail(p2)

\* Mutant: any negation is taken to conflict, also with another negation.
could_conflict_with_any_negation(self, other) ==
    IF self.is_negation \/ other.is_negation
    THEN are_base_patterns_equivalent(base_pattern(self), base_pattern(other))
    ELSE FALSE

could_conflict_with(self, other) ==
    IF self.is_negation # other.is_negation
    THEN are_base_patterns_equivalent(base_pattern(self), base_pattern(other))
    ELSE FALSE

analyze_pattern(analyzer, pattern) ==
    PatternAnalysis_new(pattern, normalize_pattern(analyzer, pattern))

are_equivalent(analyzer, p1, p2) ==
    LET analysis1 == analyze_pattern(analyzer, p1)
        analysis2 == analyze_pattern(analyzer, p2)
    IN IF analysis1.normalized = analysis2.normalized THEN TRUE
       ELSE are_base_patterns_equivalent(base_pattern(analysis1), base_pattern(analysis2))

are_conflicting(analyzer, p1, p2) ==
    could_conflict_with(analyze_pattern(analyzer, p1), analyze_pattern(analyzer, p2))

\* Mutant: the inner loop runs over every other position, not only the later ones.
RECURSIVE find_conflicts_from_every_other(_, _, _, _)
find_conflicts_from_every_other(analyzer, patterns, i, j) ==
    IF i > Len(patterns) THEN <<>>
    ELSE IF j > Len(patterns) THEN find_conflicts_from_every_other(analyzer, patterns, i + 1, 1)
    ELSE (IF i # j /\ are_conflicting(analyzer, patterns[i], patterns[j])
          THEN <<(<<patterns[i], patterns[j]>>)>> ELSE <<>>)
         \o find_conflicts_from_every_other(analyzer, patterns, i, j + 1)

\* The loops of find_conflicts from the pair (i, j) on, in the order they push.
RECURSIVE find_conflicts_from(_, _, _, _)
find_conflicts_from(analyzer, patterns, i, j) ==
    IF i > Len(patterns) THEN <<>>
    ELSE IF j > Len(patterns) THEN find_conflicts_from(analyzer, patterns, i + 1, i + 2)
    ELSE (IF are_conflicting(analyzer, patterns[i], patterns[j])
          THEN <<(<<patterns[i], patterns[j]>>)>> ELSE <<>>)
         \o find_conflicts_from(analyzer, patterns, i, j + 1)

find_conflicts(analyzer, patterns) == find_conflicts_from(analyzer, patterns, 1, 2)

(***************************************************************************)
(* core/optimizer.rs                                                       *)
(***************************************************************************)
\* The state of the second pass: the file built so far and seen_patterns.
OptimizerState_new == [optimized |-> GitignoreFile_new, seen_patterns |-> {}]

\* Mutant: only the pattern visited last is remembered, kept or not.
optimize_entry_last_visited(analyzer, acc, entry) ==
    IF is_pattern(entry)
    THEN LET pattern == entry.entry_type.text
             should_add == ~\E seen_pattern \in acc.seen_patterns :
                               are_equivalent(analyzer, pattern, seen_pattern)
         IN IF should_add
            THEN [optimized |-> add_entry(acc.optimized, entry), seen_patterns |-> {pattern}]
            ELSE [acc EXCEPT !.seen_patterns = {pattern}]
    ELSE [acc EXCEPT !.optimized = add_entry(@, entry)]

\* Mutant: a dropped pattern is remembered in seen_patterns too.
optimize_entry_all_visited(analyzer, acc, entry) ==
    IF is_pattern(entry)
    THEN LET pattern == entry.entry_type.text
             should_add == ~\E seen_pattern \in acc.seen_patterns :
                               are_equivalent(analyzer, pattern, seen_pattern)
         IN IF should_add
            THEN [optimized |-> add_entry(acc.optimized, entry),
                  seen_patterns |-> acc.seen_patterns \cup {pattern}]
            ELSE [acc EXCEPT !.seen_patterns = @ \cup {pattern}]
    ELSE [acc EXCEPT !.optimized = add_entry(@, entry)]

\* Mutant: a comment whose text is already in the output is dropped.
optimize_entry_unique_comments(analyzer, acc, entry) ==
    IF is_pattern(entry)
    THEN LET pattern == entry.entry_type.text
             should_add == ~\E seen_pattern \in acc.seen_patterns :
                               are_equivalent(analyzer, pattern, seen_pattern)
         IN IF should_add
            THEN [optimized |-> add_entry(acc.optimized, entry),
                  seen_patterns |-> acc.seen_patterns \cup {pattern}]
            ELSE acc
    ELSE IF is_comment(entry)
            /\ \E k \in 1..Len(acc.optimized.entries) :
                   acc.optimized.entries[k].entry_type = entry.entry_type
        THEN acc
    ELSE [acc EXCEPT !.optimized = add_entry(@, entry)]

\* Mutant: a kept pattern is inserted at the front of the output.
optimize_entry_push_front(analyzer, acc, entry) ==
    IF is_pattern(entry)
    THEN LET pattern == entry.entry_type.text
             should_add == ~\E seen_pattern \in acc.seen_patterns :
                               are_equivalent(analyzer, pattern, seen_pattern)
         IN IF should_add
            THEN [optimized |->
                      [entries |-> <<entry>> \o acc.optimized.entries,
                       stats |-> FileStats_update(acc.optimized.stats, entry)],
                  seen_patterns |-> acc.seen_patterns \cup {pattern}]
            ELSE acc
    ELSE [acc EXCEPT !.optimized = add_entry(@, entry)]

\* The body of the second pass of optimize_gitignore_with_analyzer for one entry.
optimize_entry(analyzer, acc, entry) ==
    IF is_pattern(entry)
    THEN LET pattern == entry.entry_type.text
             should_add == ~\E seen_pattern \in acc.seen_patterns :
                               are_equivalent(analyzer, pattern, seen_pattern)
         IN IF should_add
            THEN [optimized |-> add_entry(acc.optimized, entry),
                  seen_patterns |-> acc.seen_patterns \cup {pattern}]
            ELSE acc
    ELSE [acc EXCEPT !.optimized = add_entry(@, entry)]

\* The second pass from entry k on.
RECURSIVE optimize_entries_from(_, _, _, _)
optimize_entries_from(analyzer, entries, k, acc) ==
    IF k > Len(entries) THEN acc
    ELSE optimize_entries_from(analyzer, entries, k + 1,
                               optimize_entry(analyzer, acc, entries[k]))

optimize_gitignore_with_analyzer(f, analyzer) ==
    optimize_entries_from(analyzer, f.entries, 1, OptimizerState_new).optimized

optimize_gitignore(f) == optimize_gitignore_with_analyzer(f, PatternAnalyzer_default)

\* The state of the second pass of the aggressive variant.
AggressiveState_new ==
    [optimized |-> GitignoreFile_new, seen_patterns |-> {}, seen_comments |-> {}]

\* Mutant: a blank line is dropped only when the blank line kept last is the
\* line just before it in the input.
optimize_entry_aggressive_adjacent_input(analyzer, acc, entry) ==
    IF is_pattern(entry)
    THEN LET pattern == entry.entry_type.text
             should_add == ~\E seen_pattern \in acc.seen_patterns :
                               are_equivalent(analyzer, pattern, seen_pattern)
         IN IF should_add
            THEN [acc EXCEPT !.optimized = add_entry(@, entry),
                             !.seen_patterns = @ \cup {pattern}]
            ELSE acc
    ELSE IF is_comment(entry)
    THEN LET normalized == trim(entry.entry_type.text)
         IN IF normalized \notin acc.seen_comments
            THEN [acc EXCEPT !.optimized = add_entry(@, entry),
                             !.seen_comments = @ \cup {normalized}]
            ELSE acc
    ELSE IF \/ acc.optimized.entries = <<>>
            \/ ~is_blank(acc.optimized.entries[Len(acc.optimized.entries)])
            \/ acc.optimized.entries[Len(acc.optimized.entries)].line_number + 1
                   # entry.line_number
        THEN [acc EXCEPT !.optimized = add_entry(@, entry)]
        ELSE acc

\* The body of the second pass of optimize_gitignore_aggressive_with_analyzer.
optimize_entry_aggressive(analyzer, acc, entry) ==
    IF is_pattern(entry)
    THEN LET pattern == entry.entry_type.text
             should_add == ~\E seen_pattern \in acc.seen_patterns :
                               are_equivalent(analyzer, pattern, seen_pattern)
         IN IF should_add
            THEN [acc EXCEPT !.optimized = add_entry(@, entry),
                             !.seen_patterns = @ \cup {pattern}]
            ELSE acc
    ELSE IF is_comment(entry)
    THEN LET normalized == trim(entry.entry_type.text)
         IN IF normalized \notin acc.seen_comments
            THEN [acc EXCEPT !.optimized = add_entry(@, entry),
                             !.seen_comments = @ \cup {normalized}]
            ELSE acc
    ELSE IF \/ acc.optimized.entries = <<>>
            \/ ~is_blank(acc.optimized.entries[Len(acc.optimized.entries)])
        THEN [acc EXCEPT !.optimized = add_entry(@, entry)]
        ELSE acc

RECURSIVE optimize_aggressive_from(_, _, _, _)
optimize_aggressive_from(analyzer, entries, k, acc) ==
    IF k > Len(entries) THEN acc
    ELSE optimize_aggressive_from(analyzer, entries, k + 1,
                                  optimize_entry_aggressive(analyzer, acc, entries[k]))

optimize_gitignore_aggressive_with_analyzer(f, analyzer) ==
    optimize_aggressive_from(analyzer, f.entries, 1, AggressiveState_new).optimized

optimize_gitignore_aggressive(f) ==
    optimize_gitignore_aggressive_with_analyzer(f, PatternAnalyzer_default)

\* pattern_strings of optimize_gitignore_with_conflicts: the stored patterns, in order.
RECURSIVE pattern_strings_from(_, _)
pattern_strings_from(entries, k) ==
    IF k > Len(entries) THEN <<>>
    ELSE (IF is_pattern(entries[k]) THEN <<entries[k].entry_type.text>> ELSE <<>>)
         \o pattern_strings_from(entries, k + 1)

\* The body of the second pass of optimize_gitignore_with_conflicts.
optimize_entry_with_conflicts(analyzer, acc, entry) ==
    IF is_pattern(entry)
    THEN LET pattern == entry.entry_type.text
             should_add == ~\E seen_pattern \in acc.seen_patterns :
                               are_equivalent(analyzer, pattern, seen_pattern)
         IN IF should_add
            THEN [optimized |-> add_entry(acc.optimized, entry),
                  seen_patterns |-> acc.seen_patterns \cup {pattern}]
            ELSE acc
    ELSE [acc EXCEPT !.optimized = add_entry(@, entry)]

RECURSIVE optimize_with_conflicts_from(_, _, _, _)
optimize_with_conflicts_from(analyzer, entries, k, acc) ==
    IF k > Len(entries) THEN acc
    ELSE optimize_with_conflicts_from(analyzer, entries, k + 1,
                                      optimize_entry_with_conflicts(analyzer, acc, entries[k]))

\* The pair (optimized, conflicts) the function returns, as a record.
optimize_gitignore_with_conflicts(f) ==
    LET analyzer == PatternAnalyzer_default
    IN [optimized |->
            optimize_with_conflicts_from(analyzer, f.entries, 1, OptimizerState_new).optimized,
        conflicts |-> find_conflicts(analyzer, pattern_strings_from(f.entries, 1))]

(***************************************************************************)
(* core/categorizer.rs                                                     *)
(***************************************************************************)
Language(name) == [group |-> "Language", name |-> name]
Framework(name) == [group |-> "Framework", name |-> name]
Tool(name) == [group |-> "Tool", name |-> name]
OperatingSystem(name) == [group |-> "OperatingSystem", name |-> name]
Custom(name) == [group |-> "Custom", name |-> name]
Uncategorized == [group |-> "Uncategorized", name |-> ""]

\* str::starts_with, str::ends_with and str::contains with a string argument.
starts_with_str(s, prefix) ==
    Len(prefix) <= Len(s) /\ SubSeq(s, 1, Len(prefix)) = prefix

ends_with_str(s, suffix) ==
    Len(suffix) <= Len(s) /\ SubSeq(s, Len(s) - Len(suffix) + 1, Len(s)) = suffix

contains_str(s, sub) ==
    \E i \in 0..(Len(s) - Len(sub)) : SubSeq(s, i + 1, i + Len(sub)) = sub

\* str::find of a character: the first position of ch in s, 0 for None.
find(s, ch) ==
    IF contains(s, ch)
    THEN CHOOSE i \in 1..Len(s) : s[i] = ch /\ \A j \in 1..(i - 1) : s[j] # ch
    ELSE 0

\* str::split at a character, collected: the parts of s between the ch's.
RECURSIVE split(_, _)
split(s, ch) ==
    IF find(s, ch) = 0 THEN <<s>>
    ELSE <<SubSeq(s, 1, find(s, ch) - 1)>> \o split(SubSeq(s, find(s, ch) + 1, Len(s)), ch)

\* The string literals of is_custom_pattern.
Str_custom == <<"c", "u", "s", "t", "o", "m", "/">>
Str_project == <<"p", "r", "o", "j", "e", "c", "t", "/">>
Str_local_dir == <<"l", "o", "c", "a", "l", "/">>
Str_temp == <<"t", "e", "m", "p", "/">>
Str_tmp == <<"t", "m", "p", "/">>
Str_config == <<"c", "o", "n", "f", "i", "g">>
Str_settings == <<"s", "e", "t", "t", "i", "n", "g", "s">>
Str_local == <<"l", "o", "c", "a", "l">>
Str_dev == <<"d", "e", "v">>
Str_prod == <<"p", "r", "o", "d">>
Str_test == <<"t", "e", "s", "t">>

\* The map language_patterns after initialize_common_patterns: one key per add_language_patterns call.
language_patterns ==
    ("Python" :>
        << <<"*", ".", "p", "y", "[", "c", "o", "d", "]">>,
           <<"*", ".", "s", "o">>,
           <<"_", "_", "p", "y", "c", "a", "c", "h", "e", "_", "_", "/">>,
           <<"*", ".", "e", "g", "g">>,
           <<"*", ".", "e", "g", "g", "-", "i", "n", "f", "o", "/">>,
           <<"d", "i", "s", "t", "/">>,
           <<"b", "u", "i", "l", "d", "/">>,
           <<"e", "g", "g", "s", "/">>,
           <<"p", "a", "r", "t", "s", "/">>,
           <<"b", "i", "n", "/">>,
           <<"v", "a", "r", "/">>,
           <<"s", "d", "i", "s", "t", "/">>,
           <<"d", "e", "v", "e", "l", "o", "p", "-", "e", "g", "g", "s", "/">>,
           <<"*", ".", "e", "g", "g", "-", "i", "n", "f", "o", "/">>,
           <<".", "i", "n", "s", "t", "a", "l", "l", "e", "d", ".", "c", "f", "g">>,
           <<"*", ".", "m", "a", "n", "i", "f", "e", "s", "t">>,
           <<"*", ".", "s", "p", "e", "c">>,
           <<"p", "i", "p", "-", "l", "o", "g", ".", "t", "x", "t">>,
           <<"p", "i", "p", "-", "d", "e", "l", "e", "t", "e", "-", "t", "h", "i", "s", "-", "d", "i", "r", "e", "c", "t", "o", "r", "y", ".", "t", "x", "t">>,
           <<".", "P", "y", "t", "h", "o", "n">>,
           <<"e", "n", "v", "/">>,
           <<"v", "e", "n", "v", "/">>,
           <<"E", "N", "V", "/">>,
           <<"e", "n", "v", ".", "b", "a", "k", "/">>,
           <<"v", "e", "n", "v", ".", "b", "a", "k", "/">>,
           <<".", "p", "y", "t", "e", "s", "t", "_", "c", "a", "c", "h", "e", "/">>,
           <<".", "c", "o", "v", "e", "r", "a", "g", "e">>,
           <<"h", "t", "m", "l", "c", "o", "v", "/">>,
           <<".", "t", "o", "x", "/">>,
           <<".", "n", "o", "x", "/">>,
           <<".", "c", "a", "c", "h", "e">>,
           <<".", "m", "y", "p", "y", "_", "c", "a", "c", "h", "e", "/">>,
           <<".", "d", "m", "y", "p", "y", ".", "j", "s", "o", "n">>,
           <<"d", "m", "y", "p", "y", ".", "j", "s", "o", "n">> >>)
    @@ ("Node.js" :>
        << <<"n", "o", "d", "e", "_", "m", "o", "d", "u", "l", "e", "s", "/">>,
           <<"n", "p", "m", "-", "d", "e", "b", "u", "g", ".", "l", "o", "g", "*">>,
           <<"y", "a", "r", "n", "-", "d", "e", "b", "u", "g", ".", "l", "o", "g", "*">>,
           <<"y", "a", "r", "n", "-", "e", "r", "r", "o", "r", ".", "l", "o", "g", "*">>,
           <<"l", "e", "r", "n", "a", "-", "d", "e", "b", "u", "g", ".", "l", "o", "g", "*">>,
           <<".", "n", "p", "m">>,
           <<".", "e", "s", "l", "i", "n", "t", "c", "a", "c", "h", "e">>,
           <<".", "n", "o", "d", "e", "_", "r", "e", "p", "l", "_", "h", "i", "s", "t", "o", "r", "y">>,
           <<"*", ".", "t", "g", "z">>,
           <<".", "y", "a", "r", "n", "-", "i", "n", "t", "e", "g", "r", "i", "t", "y">>,
           <<".", "e", "n", "v", ".", "l", "o", "c", "a", "l">>,
           <<".", "e", "n", "v", ".", "d", "e", "v", "e", "l", "o", "p", "m", "e", "n", "t", ".", "l", "o", "c", "a", "l">>,
           <<".", "e", "n", "v", ".", "t", "e", "s", "t", ".", "l", "o", "c", "a", "l">>,
           <<".", "e", "n", "v", ".", "p", "r", "o", "d", "u", "c", "t", "i", "o", "n", ".", "l", "o", "c", "a", "l">>,
           <<"c", "o", "v", "e", "r", "a", "g", "e", "/">>,
           <<".", "n", "y", "c", "_", "o", "u", "t", "p", "u", "t">>,
           <<".", "g", "r", "u", "n", "t">>,
           <<"b", "o", "w", "e", "r", "_", "c", "o", "m", "p", "o", "n", "e", "n", "t", "s", "/">>,
           <<".", "l", "o", "c", "k", "-", "w", "s", "c", "r", "i", "p", "t">>,
           <<"b", "u", "i", "l", "d", "/", "R", "e", "l", "e", "a", "s", "e">>,
           <<".", "n", "o", "d", "e", "_", "r", "e", "p", "l", "_", "h", "i", "s", "t", "o", "r", "y">>,
           <<"*", ".", "t", "g", "z">>,
           <<".", "y", "a", "r", "n", "-", "i", "n", "t", "e", "g", "r", "i", "t", "y">>,
           <<".", "n", "e", "x", "t", "/">>,
           <<"o", "u", "t", "/">> >>)
    @@ ("Java" :>
        << <<"*", ".", "c", "l", "a", "s", "s">>,
           <<"*", ".", "l", "o", "g">>,
           <<"*", ".", "c", "t", "x", "t">>,
           <<".", "m", "t", "j", ".", "t", "m", "p", "/">>,
           <<"*", ".", "j", "a", "r">>,
           <<"*", ".", "w", "a", "r">>,
           <<"*", ".", "n", "a", "r">>,
           <<"*", ".", "e", "a", "r">>,
           <<"*", ".", "z", "i", "p">>,
           <<"*", ".", "t", "a", "r", ".", "g", "z">>,
           <<"*", ".", "r", "a", "r">>,
           <<"h", "s", "_", "e", "r", "r", "_", "p", "i", "d", "*">>,
           <<"r", "e", "p", "l", "a", "y", "_", "p", "i", "d", "*">>,
           <<"t", "a", "r", "g", "e", "t", "/">>,
           <<"!", ".", "m", "v", "n", "/", "w", "r", "a", "p", "p", "e", "r", "/", "m", "a", "v", "e", "n", "-", "w", "r", "a", "p", "p", "e", "r", ".", "j", "a", "r">>,
           <<"!", "*", "*", "/", "s", "r", "c", "/", "m", "a", "i", "n", "/", "*", "*", "/", "t", "a", "r", "g", "e", "t", "/">>,
           <<"!", "*", "*", "/", "s", "r", "c", "/", "t", "e", "s", "t", "/", "*", "*", "/", "t", "a", "r", "g", "e", "t", "/">>,
           <<".", "i", "d", "e", "a", "/">>,
           <<"*", ".", "i", "w", "s">>,
           <<"*", ".", "i", "m", "l">>,
           <<"*", ".", "i", "p", "r">>,
           <<".", "g", "r", "a", "d", "l", "e", "/">>,
           <<"b", "u", "i", "l", "d", "/">>,
           <<"!", "g", "r", "a", "d", "l", "e", "/", "w", "r", "a", "p", "p", "e", "r", "/", "g", "r", "a", "d", "l", "e", "-", "w", "r", "a", "p", "p", "e", "r", ".", "j", "a", "r">> >>)
    @@ ("Rust" :>
        << <<"t", "a", "r", "g", "e", "t", "/">>,
           <<"C", "a", "r", "g", "o", ".", "l", "o", "c", "k">>,
           <<"*", ".", "p", "d", "b">>,
           <<"*", ".", "e", "x", "e">>,
           <<"*", ".", "d", "l", "l">>,
           <<"*", ".", "s", "o">>,
           <<"*", ".", "d", "y", "l", "i", "b">>,
           <<"*", ".", "r", "l", "i", "b">>,
           <<"*", ".", "r", "m", "e", "t", "a">>,
           <<"*", ".", "r", "b", "c">>,
           <<"*", ".", "d", "S", "Y", "M", "/">>,
           <<"*", ".", "s", "u">>,
           <<"*", ".", "i", "d", "b">>,
           <<"*", ".", "p", "d", "b">>,
           <<"*", ".", "i", "l", "k">>,
           <<"*", ".", "e", "x", "p">>,
           <<"*", ".", "l", "i", "b">>,
           <<"*", ".", "a">>,
           <<"*", ".", "o">>,
           <<"*", ".", "s", "o">>,
           <<"*", ".", "d", "y", "l", "i", "b">> >>)
    @@ ("Go" :>
        << <<"*", ".", "e", "x", "e">>,
           <<"*", ".", "e", "x", "e", "~">>,
           <<"*", ".", "d", "l", "l">>,
           <<"*", ".", "s", "o">>,
           <<"*", ".", "d", "y", "l", "i", "b">>,
           <<"*", ".", "t", "e", "s", "t">>,
           <<"*", ".", "o", "u", "t">>,
           <<"g", "o", ".", "w", "o", "r", "k">>,
           <<"v", "e", "n", "d", "o", "r", "/">>,
           <<".", "g", "o", "-", "v", "e", "r", "s", "i", "o", "n">> >>)

\* The map framework_patterns after initialize_common_patterns: one key per add_framework_patterns call.
framework_patterns ==
    ("React" :>
        << <<"n", "o", "d", "e", "_", "m", "o", "d", "u", "l", "e", "s", "/">>,
           <<".", "p", "n", "p">>,
           <<".", "p", "n", "p", ".", "j", "s">>,
           <<"c", "o", "v", "e", "r", "a", "g", "e", "/">>,
           <<"b", "u", "i", "l", "d", "/">>,
           <<".", "D", "S", "_", "S", "t", "o", "r", "e">>,
           <<".", "e", "n", "v", ".", "l", "o", "c", "a", "l">>,
           <<".", "e", "n", "v", ".", "d", "e", "v", "e", "l", "o", "p", "m", "e", "n", "t", ".", "l", "o", "c", "a", "l">>,
           <<".", "e", "n", "v", ".", "t", "e", "s", "t", ".", "l", "o", "c", "a", "l">>,
           <<".", "e", "n", "v", ".", "p", "r", "o", "d", "u", "c", "t", "i", "o", "n", ".", "l", "o", "c", "a", "l">>,
           <<"n", "p", "m", "-", "d", "e", "b", "u", "g", ".", "l", "o", "g", "*">>,
           <<"y", "a", "r", "n", "-", "d", "e", "b", "u", "g", ".", "l", "o", "g", "*">>,
           <<"y", "a", "r", "n", "-", "e", "r", "r", "o", "r", ".", "l", "o", "g", "*">>,
           <<".", "n", "e", "x", "t", "/">>,
           <<"o", "u", "t", "/">> >>)
    @@ ("Django" :>
        << <<"*", ".", "l", "o", "g">>,
           <<"l", "o", "c", "a", "l", "_", "s", "e", "t", "t", "i", "n", "g", "s", ".", "p", "y">>,
           <<"d", "b", ".", "s", "q", "l", "i", "t", "e", "3">>,
           <<"d", "b", ".", "s", "q", "l", "i", "t", "e", "3", "-", "j", "o", "u", "r", "n", "a", "l">>,
           <<"m", "e", "d", "i", "a", "/">>,
           <<"s", "t", "a", "t", "i", "c", "f", "i", "l", "e", "s", "/">>,
           <<".", "e", "n", "v">>,
           <<".", "v", "e", "n", "v">>,
           <<"e", "n", "v", "/">>,
           <<"v", "e", "n", "v", "/">>,
           <<"E", "N", "V", "/">>,
           <<"e", "n", "v", ".", "b", "a", "k", "/">>,
           <<"v", "e", "n", "v", ".", "b", "a", "k", "/">>,
           <<".", "p", "y", "t", "e", "s", "t", "_", "c", "a", "c", "h", "e", "/">> >>)
    @@ ("Spring" :>
        << <<"*", ".", "c", "l", "a", "s", "s">>,
           <<"*", ".", "l", "o", "g">>,
           <<"*", ".", "c", "t", "x", "t">>,
           <<".", "m", "t", "j", ".", "t", "m", "p", "/">>,
           <<"*", ".", "j", "a", "r">>,
           <<"*", ".", "w", "a", "r">>,
           <<"*", ".", "n", "a", "r">>,
           <<"*", ".", "e", "a", "r">>,
           <<"*", ".", "z", "i", "p">>,
           <<"*", ".", "t", "a", "r", ".", "g", "z">>,
           <<"*", ".", "r", "a", "r">>,
           <<"h", "s", "_", "e", "r", "r", "_", "p", "i", "d", "*">>,
           <<"r", "e", "p", "l", "a", "y", "_", "p", "i", "d", "*">>,
           <<"t", "a", "r", "g", "e", "t", "/">>,
           <<".", "i", "d", "e", "a", "/">>,
           <<"*", ".", "i", "w", "s">>,
           <<"*", ".", "i", "m", "l">>,
           <<"*", ".", "i", "p", "r">> >>)

\* The map tool_patterns after initialize_common_patterns: one key per add_tool_patterns call.
tool_patterns ==
    ("VSCode" :>
        << <<".", "v", "s", "c", "o", "d", "e", "/">>,
           <<"*", ".", "c", "o", "d", "e", "-", "w", "o", "r", "k", "s", "p", "a", "c", "e">>,
           <<".", "v", "s", "c", "o", "d", "e", "/", "s", "e", "t", "t", "i", "n", "g", "s", ".", "j", "s", "o", "n">>,
           <<".", "v", "s", "c", "o", "d", "e", "/", "t", "a", "s", "k", "s", ".", "j", "s", "o", "n">>,
           <<".", "v", "s", "c", "o", "d", "e", "/", "l", "a", "u", "n", "c", "h", ".", "j", "s", "o", "n">>,
           <<".", "v", "s", "c", "o", "d", "e", "/", "e", "x", "t", "e", "n", "s", "i", "o", "n", "s", ".", "j", "s", "o", "n">> >>)
    @@ ("IntelliJ" :>
        << <<".", "i", "d", "e", "a", "/">>,
           <<"*", ".", "i", "w", "s">>,
           <<"*", ".", "i", "m", "l">>,
           <<"*", ".", "i", "p", "r">>,
           <<".", "i", "d", "e", "a", "_", "m", "o", "d", "u", "l", "e", "s", "/">> >>)
    @@ ("Eclipse" :>
        << <<".", "m", "e", "t", "a", "d", "a", "t", "a">>,
           <<"b", "i", "n", "/">>,
           <<"t", "m", "p", "/">>,
           <<"*", ".", "t", "m", "p">>,
           <<"*", ".", "b", "a", "k">>,
           <<"*", ".", "s", "w", "p">>,
           <<"*", "~", ".", "n", "i", "b">>,
           <<"l", "o", "c", "a", "l", ".", "p", "r", "o", "p", "e", "r", "t", "i", "e", "s">>,
           <<".", "s", "e", "t", "t", "i", "n", "g", "s", "/">>,
           <<".", "l", "o", "a", "d", "p", "a", "t", "h">>,
           <<".", "r", "e", "c", "o", "m", "m", "e", "n", "d", "e", "r", "s">> >>)
    @@ ("Vim" :>
        << <<"*", ".", "s", "w", "p">>,
           <<"*", ".", "s", "w", "o">>,
           <<"*", "~">>,
           <<".", "v", "i", "m", "/">>,
           <<".", "v", "i", "m", "i", "n", "f", "o">>,
           <<".", "v", "i", "m", "r", "c">> >>)
    @@ ("Emacs" :>
        << <<"*", "~">>,
           <<"#", "*", "#">>,
           <<".", "#", "*">>,
           <<".", "e", "m", "a", "c", "s", ".", "d", "e", "s", "k", "t", "o", "p">>,
           <<".", "e", "m", "a", "c", "s", ".", "d", "e", "s", "k", "t", "o", "p", ".", "l", "o", "c", "k">>,
           <<"*", ".", "e", "l", "c">>,
           <<"a", "u", "t", "o", "-", "s", "a", "v", "e", "-", "l", "i", "s", "t">>,
           <<"t", "r", "a", "m", "p">>,
           <<".", "e", "m", "a", "c", "s", ".", "d", "e", "s", "k", "t", "o", "p", ".", "l", "o", "c", "k">> >>)

\* The map os_patterns after initialize_common_patterns: one key per add_os_patterns call.
os_patterns ==
    ("macOS" :>
        << <<".", "D", "S", "_", "S", "t", "o", "r", "e">>,
           <<".", "A", "p", "p", "l", "e", "D", "o", "u", "b", "l", "e">>,
           <<".", "L", "S", "O", "v", "e", "r", "r", "i", "d", "e">>,
           <<"I", "c", "o", "n">>,
           <<".", "_", "*">>,
           <<".", "D", "o", "c", "u", "m", "e", "n", "t", "R", "e", "v", "i", "s", "i", "o", "n", "s", "-", "V", "1", "0", "0">>,
           <<".", "f", "s", "e", "v", "e", "n", "t", "s", "d">>,
           <<".", "S", "p", "o", "t", "l", "i", "g", "h", "t", "-", "V", "1", "0", "0">>,
           <<".", "T", "e", "m", "p", "o", "r", "a", "r", "y", "I", "t", "e", "m", "s">>,
           <<".", "T", "r", "a", "s", "h", "e", "s">>,
           <<".", "V", "o", "l", "u", "m", "e", "I", "c", "o", "n", ".", "i", "c", "n", "s">>,
           <<".", "c", "o", "m", ".", "a", "p", "p", "l", "e", ".", "t", "i", "m", "e", "m", "a", "c", "h", "i", "n", "e", ".", "d", "o", "n", "o", "t", "p", "r", "e", "s", "e", "n", "t">>,
           <<".", "A", "p", "p", "l", "e", "D", "B">>,
           <<".", "A", "p", "p", "l", "e", "D", "e", "s", "k", "t", "o", "p">>,
           <<"N", "e", "t", "w", "o", "r", "k", " ", "T", "r", "a", "s", "h", " ", "F", "o", "l", "d", "e", "r">>,
           <<"T", "e", "m", "p", "o", "r", "a", "r", "y", " ", "I", "t", "e", "m", "s">>,
           <<".", "a", "p", "d", "i", "s", "k">>,
           <<".", "V", "o", "l", "u", "m", "e", "I", "c", "o", "n", ".", "i", "c", "n", "s">>,
           <<".", "f", "s", "e", "v", "e", "n", "t", "s", "d">>,
           <<".", "S", "p", "o", "t", "l", "i", "g", "h", "t", "-", "V", "1", "0", "0">> >>)
    @@ ("Windows" :>
        << <<"T", "h", "u", "m", "b", "s", ".", "d", "b">>,
           <<"T", "h", "u", "m", "b", "s", ".", "d", "b", ":", "e", "n", "c", "r", "y", "p", "t", "a", "b", "l", "e">>,
           <<"e", "h", "t", "h", "u", "m", "b", "s", ".", "d", "b">>,
           <<"e", "h", "t", "h", "u", "m", "b", "s", "_", "v", "i", "s", "t", "a", ".", "d", "b">>,
           <<"*", ".", "t", "m", "p">>,
           <<"*", ".", "t", "e", "m", "p">>,
           <<"D", "e", "s", "k", "t", "o", "p", ".", "i", "n", "i">>,
           <<"$", "R", "E", "C", "Y", "C", "L", "E", ".", "B", "I", "N", "/">>,
           <<"*", ".", "c", "a", "b">>,
           <<"*", ".", "m", "s", "i">>,
           <<"*", ".", "m", "s", "i", "x">>,
           <<"*", ".", "m", "s", "m">>,
           <<"*", ".", "m", "s", "p">>,
           <<"*", ".", "l", "n", "k">>,
           <<"*", ".", "s", "t", "a", "c", "k", "d", "u", "m", "p">> >>)
    @@ ("Linux" :>
        << <<"*", "~">>,
           <<"*", ".", "s", "w", "p">>,
           <<"*", ".", "s", "w", "o">>,
           <<"*", "~">>,
           <<".", "n", "f", "s", "*">>,
           <<".", "f", "u", "s", "e", "_", "h", "i", "d", "d", "e", "n", "*">>,
           <<".", "d", "i", "r", "e", "c", "t", "o", "r", "y">>,
           <<".", "T", "r", "a", "s", "h", "-", "*">>,
           <<".", "n", "f", "s", "*">>,
           <<".", "f", "u", "s", "e", "_", "h", "i", "d", "d", "e", "n", "*">> >>)

matches_with_character_class(pattern, known_pattern) ==
    LET start == find(known_pattern, "[")
        end == find(known_pattern, "]")
    IN /\ start # 0
       /\ end # 0
       /\ start < end
       /\ \E k \in (start + 1)..(end - 1) :
              pattern = SubSeq(known_pattern, 1, start - 1) \o <<known_pattern[k]>>
                        \o SubSeq(known_pattern, end + 1, Len(known_pattern))

pattern_matches(pattern, known_pattern) ==
    \/ pattern = known_pattern
    \/ /\ contains(known_pattern, "[")
       /\ contains(known_pattern, "]")
       /\ matches_with_character_class(pattern, known_pattern)
    \/ /\ contains(known_pattern, "*")
       /\ LET parts == split(known_pattern, "*")
          IN /\ Len(parts) = 2
             /\ starts_with_str(pattern, parts[1])
             /\ ends_with_str(pattern, parts[2])
    \/ contains_str(pattern, known_pattern)
    \/ contains_str(known_pattern, pattern)

is_custom_pattern(pattern) ==
    \/ starts_with_str(pattern, Str_custom)
    \/ starts_with_str(pattern, Str_project)
    \/ starts_with_str(pattern, Str_local_dir)
    \/ starts_with_str(pattern, Str_temp)
    \/ starts_with_str(pattern, Str_tmp)
    \/ contains_str(pattern, Str_config)
    \/ contains_str(pattern, Str_settings)
    \/ contains_str(pattern, Str_local)
    \/ contains_str(pattern, Str_dev)
    \/ contains_str(pattern, Str_prod)
    \/ contains_str(pattern, Str_test)

\* patterns.iter().any(|p| self.pattern_matches(normalized_pattern, p))
any_pattern_matches(patterns, normalized_pattern) ==
    \E k \in 1..Len(patterns) : pattern_matches(normalized_pattern, patterns[k])

\* The keys of map for which the test of the loop body of categorize_pattern
\* holds.
matching_keys(map, normalized_pattern) ==
    {key \in DOMAIN map : any_pattern_matches(map[key], normalized_pattern)}

\* The iteration orders a HashMap with the keys of map can have.
IterationOrders(map) ==
    {order \in [1..Cardinality(DOMAIN map) -> DOMAIN map] :
        \A a, b \in DOMAIN order : a # b => order[a] # order[b]}

os_orders == IterationOrders(os_patterns)
language_orders == IterationOrders(language_patterns)
tool_orders == IterationOrders(tool_patterns)
framework_orders == IterationOrders(framework_patterns)

\* Mutant: the loop gives up after the first key of the iteration.
first_match_first_key(order, matching) ==
    IF order # <<>> /\ order[1] \in matching THEN <<order[1]>> ELSE <<>>

\* One for-loop of categorize_pattern over a map iterated in order: the first
\* key whose patterns match, as a one-element sequence, <<>> when none does.
RECURSIVE first_match(_, _)
first_match(order, matching) ==
    IF order = <<>> THEN <<>>
    ELSE IF order[1] \in matching THEN <<order[1]>>
    ELSE first_match(Tail(order), matching)

\* Mutant: the tool patterns are checked before the language patterns.
next_check_tool_first(position) ==
    CASE position = "os" -> "tool"
      [] position = "tool" -> "language"
      [] position = "language" -> "framework"
      [] position = "framework" -> "custom"

\* The order of the checks of categorize_pattern: what follows a loop that
\* found no match.
next_check(position) ==
    CASE position = "os" -> "language"
      [] position = "language" -> "tool"
      [] position = "tool" -> "framework"
      [] position = "framework" -> "custom"

(***************************************************************************)
(* core/optimizer.rs: analyze_gitignore and GitignoreAnalysis.             *)
(***************************************************************************)
GitignoreAnalysis_new ==
    [total_patterns |-> 0,
     file_patterns |-> 0,
     directory_patterns |-> 0,
     both_patterns |-> 0,
     negation_patterns |-> 0,
     absolute_patterns |-> 0,
     wildcard_patterns |-> 0,
     globstar_patterns |-> 0,
     case_sensitive_patterns |-> 0,
     case_insensitive_patterns |-> 0,
     conflicts |-> <<>>,
     pattern_analyses |-> <<>>]

add_pattern_analysis(self, pattern_analysis) ==
    [self EXCEPT
        !.total_patterns = @ + 1,
        !.file_patterns = IF pattern_analysis.pattern_type = "File" THEN @ + 1 ELSE @,
        !.directory_patterns = IF pattern_analysis.pattern_type = "Directory" THEN @ + 1 ELSE @,
        !.both_patterns = IF pattern_analysis.pattern_type = "Both" THEN @ + 1 ELSE @,
        !.negation_patterns = IF pattern_analysis.is_negation THEN @ + 1 ELSE @,
        !.absolute_patterns = IF pattern_analysis.is_absolute THEN @ + 1 ELSE @,
        !.wildcard_patterns = IF pattern_analysis.has_wildcards THEN @ + 1 ELSE @,
        !.globstar_patterns = IF pattern_analysis.has_globstar THEN @ + 1 ELSE @,
        !.case_sensitive_patterns = IF pattern_analysis.is_case_sensitive THEN @ + 1 ELSE @,
        !.case_insensitive_patterns = IF pattern_analysis.is_case_sensitive THEN @ ELSE @ + 1,
        !.pattern_analyses = Append(@, pattern_analysis)]

has_conflicts(self) == self.conflicts # <<>>

conflict_count(self) == Len(self.conflicts)

\* The first loop of analyze_gitignore over entries k..Len(entries).
RECURSIVE analyze_entries_from(_, _, _, _)
analyze_entries_from(analyzer, entries, k, acc) ==
    IF k > Len(entries) THEN acc
    ELSE analyze_entries_from(analyzer, entries, k + 1,
             IF is_pattern(entries[k])
             THEN add_pattern_analysis(acc, analyze_pattern(analyzer, entries[k].entry_type.text))
             ELSE acc)

analyze_gitignore(f) ==
    LET analyzer == PatternAnalyzer_default
        counted == analyze_entries_from(analyzer, f.entries, 1, GitignoreAnalysis_new)
        pattern_strings == pattern_strings_from(f.entries, 1)
    IN [counted EXCEPT !.conflicts = find_conflicts(analyzer, pattern_strings)]

(***************************************************************************)
(* cli/args.rs, utils/file.rs and main.rs.  A path is a file stem with an  *)
(* extension; an Option is a sequence of at most one element.              *)
(***************************************************************************)
PathBuf_from(stem, extension) == [stem |-> stem, extension |-> extension]

\* Path::with_extension
with_extension(path, extension) == [path EXCEPT !.extension = extension]

input_file(a) ==
    IF a.file = <<>> THEN PathBuf_from(".gitignore", "") ELSE a.file[1]

output_file(a) ==
    IF a.output = <<>> THEN input_file(a) ELSE a.output[1]

\* Mutant: a backup is made only when --backup is given.
should_backup_flag_only(a) == a.backup

should_backup(a) == a.backup \/ ~a.dry_run

\* Mutant: --backup overrides --dry-run.
returns_before_writing_unless_backup(a) == a.dry_run /\ ~a.backup

\* The test of run after print_results: whether run returns before it
\* touches the file system.
returns_before_writing(a) == a.dry_run

\* Path::exists
exists(files, path) == files[path] # <<>>

\* The file system after a successful fs::copy(path, backup_path) of
\* create_backup. fs::copy truncates the destination when it opens it, so a
\* file copied onto itself is left empty.
create_backup(files, path) ==
    LET backup_path == with_extension(path, "backup")
    IN IF ~exists(files, path) THEN files
       ELSE IF backup_path = path THEN [files EXCEPT ![path] = << <<>> >>]
       ELSE [files EXCEPT ![backup_path] = files[path]]

\* The file system after a successful write_gitignore_file: the temporary
\* file is written, then renamed to path. Renaming a file to itself leaves it.
write_gitignore_file(files, path, text_written) ==
    LET temp_path == with_extension(path, "tmp")
        written == [files EXCEPT ![temp_path] = <<text_written>>]
    IN IF temp_path = path THEN written
       ELSE [written EXCEPT ![path] = written[temp_path], ![temp_path] = <<>>]

\* The optimized file of run, by args.mode.
optimize_by_mode(mode, original_file) ==
    CASE mode = "Standard" -> optimize_gitignore(original_file)
      [] mode = "Aggressive" -> optimize_gitignore_aggressive(original_file)
      [] mode = "Conservative" -> optimize_gitignore(original_file)

(***************************************************************************)
(* Inputs of the model.                                                    *)
(***************************************************************************)
\* The lines an input text is made of.
LinePool ==
    { <<"f", "o", "o">>,
      <<"/", "f", "o", "o">>,
      <<"f", "o", "o", "/">>,
      <<"/", "f", "o", "o", "/">>,
      <<"!", "f", "o", "o">>,
      <<"!", "f", "o", "o", "/">>,
      <<"f", "o", "o", " ">>,
      <<"f", "o", "o", " ", "#", "c">>,
      <<"b", "a", "r">>,
      <<"F", "O", "O">>,
      <<"#", " ", "c">>,
      <<"#", " ", "d">>,
      <<>>,
      <<" ", " ">>,
      <<"f", "o", "o", " ">>,
      <<" ">> }

\* The characters of the patterns handed to the analyzer directly.
PatternChars == {"!", "/", "a", " "}

\* Patterns with whitespace other than the space: no-break space, next line,
\* ogham space mark and vertical tab.
PaddedPatterns ==
    { <<" ">>,
      <<"a", " ">>,
      <<"a", "">>,
      <<"a", " ">>,
      <<"a", "">>,
      <<" ", "a">>,
      <<"a", " ", " ">>,
      <<"/", "a", " ">>,
      <<"a", "/", " ">>,
      <<"!", "a", " ">>,
      <<"A", " ">> }

\* The patterns handed to categorize_pattern.
CategorizePool ==
    { <<".", "D", "S", "_", "S", "t", "o", "r", "e">>,
      <<"*", ".", "p", "y", "c">>,
      <<"t", "o", "t", "a", "l", "l", "y", "_", "r", "a", "n", "d", "o", "m", "_", "n", "a", "m", "e", ".", "x", "y", "z">>,
      <<"*", ".", "s", "w", "p">>,
      <<"*", ".", "t", "m", "p">>,
      <<"t", "a", "r", "g", "e", "t", "/">>,
      <<"b", "u", "i", "l", "d", "/">>,
      <<".", "v", "s", "c", "o", "d", "e", "/">>,
      <<".", "i", "d", "e", "a", "/">>,
      <<"m", "e", "d", "i", "a", "/">>,
      <<"m", "y", "t", "e", "s", "t">>,
      <<"z", "z", "z">>,
      <<" ", "*", ".", "s", "o", " ">>,
      <<" ", "t", "a", "r", "g", "e", "t", "/", "">>,
      <<" ">>,
      <<>>,
      <<"n", "o", "d", "e", "_", "m", "o", "d", "u", "l", "e", "s", "/">>,
      <<"*", ".", "l", "o", "g">>,
      <<"T", "h", "u", "m", "b", "s", ".", "d", "b">>,
      <<".", "e", "n", "v">>,
      <<"*", ".", "e", "x", "e">>,
      <<"*", "~">>,
      <<"*", ".", "i", "m", "l">>,
      <<"a">> }

\* The categorizer instances, each built by its own PatternCategorizer::new.
Instances == {1, 2}

SeqsUpTo(S, n) == UNION {[1..k -> S] : k \in 0..n}

(***************************************************************************)
(* Groups of variables and the values they have where they are not used.   *)
(***************************************************************************)
pairVars == <<pattern1, pattern2, equivalent, conflicting>>

textVars == <<text, rendered>>

fileVars == <<content, file, duplicates, optimized, reoptimized, aggressive, with_conflicts,
               file_analysis>>

categorizeVars == <<input_pattern, positions, categories>>

runVars == <<args, fs, initial_fs, effects, error>>

\* The paths of the model.
Paths ==
    {PathBuf_from(stem, extension) :
        stem \in {".gitignore", "custom", "out"},
        extension \in {"", "gitignore", "backup", "tmp"}}

NoArgs ==
    [file |-> <<>>, output |-> <<>>, backup |-> FALSE, dry_run |-> FALSE,
     verbose |-> FALSE, mode |-> "Standard"]

NoRun ==
    /\ args = NoArgs
    /\ fs = <<>>
    /\ initial_fs = <<>>
    /\ effects = <<>>
    /\ error = "None"

NotCategorized == [group |-> "None", name |-> ""]

NoCategorize ==
    /\ input_pattern = <<>>
    /\ positions = [i \in Instances |-> "os"]
    /\ categories = [i \in Instances |-> NotCategorized]

NoConflictsResult == [optimized |-> GitignoreFile_new, conflicts |-> <<>>]

NoPair ==
    /\ pattern1 = <<>>
    /\ pattern2 = <<>>
    /\ equivalent = FALSE
    /\ conflicting = FALSE

NoText ==
    /\ text = <<>>
    /\ rendered = <<>>

NoFile ==
    /\ content = <<>>
    /\ file = GitignoreFile_new
    /\ duplicates = <<>>
    /\ optimized = GitignoreFile_new
    /\ reoptimized = GitignoreFile_new
    /\ aggressive = GitignoreFile_new
    /\ with_conflicts = NoConflictsResult
    /\ file_analysis = GitignoreAnalysis_new

(***************************************************************************)
(* Spec: a text is parsed, then optimized by one of the variants; the      *)
(* result of the standard variant is optimized again.                      *)
(***************************************************************************)
Init ==
    /\ pc = "start"
    /\ content \in SeqsUpTo(LinePool, MaxLines)
    /\ file = GitignoreFile_new
    /\ optimized = GitignoreFile_new
    /\ reoptimized = GitignoreFile_new
    /\ duplicates = <<>>
    /\ aggressive = GitignoreFile_new
    /\ with_conflicts = NoConflictsResult
    /\ file_analysis = GitignoreAnalysis_new
    /\ NoPair
    /\ NoText
    /\ NoCategorize
    /\ NoRun

\* parse_gitignore and find_duplicates, as run calls them one after the other.
Parse ==
    /\ pc = "start"
    /\ file' = parse_gitignore(content)
    /\ duplicates' = find_duplicates(file')
    /\ pc' = "parsed"
    /\ UNCHANGED <<content, optimized, reoptimized, aggressive, with_conflicts>>
    /\ UNCHANGED <<pairVars, textVars>>
    /\ UNCHANGED <<categorizeVars, runVars>>
    /\ UNCHANGED file_analysis

Optimize ==
    /\ pc = "parsed"
    /\ optimized' = optimize_gitignore(file)
    /\ pc' = "optimized"
    /\ UNCHANGED <<content, file, duplicates, reoptimized, aggressive, with_conflicts>>
    /\ UNCHANGED <<pairVars, textVars>>
    /\ UNCHANGED <<categorizeVars, runVars>>
    /\ UNCHANGED file_analysis

Reoptimize ==
    /\ pc = "optimized"
    /\ reoptimized' = optimize_gitignore(optimized)
    /\ pc' = "reoptimized"
    /\ UNCHANGED <<content, file, duplicates, optimized, aggressive, with_conflicts>>
    /\ UNCHANGED <<pairVars, textVars>>
    /\ UNCHANGED <<categorizeVars, runVars>>
    /\ UNCHANGED file_analysis

OptimizeAggressive ==
    /\ pc = "parsed"
    /\ aggressive' = optimize_gitignore_aggressive(file)
    /\ pc' = "aggressive"
    /\ UNCHANGED <<content, file, duplicates, optimized, reoptimized, with_conflicts>>
    /\ UNCHANGED <<pairVars, textVars>>
    /\ UNCHANGED <<categorizeVars, runVars>>
    /\ UNCHANGED file_analysis

OptimizeWithConflicts ==
    /\ pc = "parsed"
    /\ with_conflicts' = optimize_gitignore_with_conflicts(file)
    /\ pc' = "with_conflicts"
    /\ UNCHANGED <<content, file, duplicates, optimized, reoptimized, aggressive>>
    /\ UNCHANGED <<pairVars, textVars>>
    /\ UNCHANGED <<categorizeVars, runVars>>
    /\ UNCHANGED file_analysis

Analyze ==
    /\ pc = "parsed"
    /\ file_analysis' = analyze_gitignore(file)
    /\ pc' = "analyzed"
    /\ UNCHANGED <<content, file, duplicates, optimized, reoptimized, aggressive,
                   with_conflicts>>
    /\ UNCHANGED <<pairVars, textVars>>
    /\ UNCHANGED <<categorizeVars, runVars>>

Next ==
    \/ Parse
    \/ Optimize
    \/ Reoptimize
    \/ OptimizeAggressive
    \/ OptimizeWithConflicts
    \/ Analyze

Spec == Init /\ [][Next]_vars

(***************************************************************************)
(* SpecAggressive: the runs of Spec on longer files of few distinct lines, *)
(* where a dropped line stands between two blank lines.                    *)
(***************************************************************************)
AggressivePool ==
    { <<"f", "o", "o">>,
      <<"#", " ", "c">>,
      <<"#", " ", "c", " ">>,
      <<"#", " ", "c", " ">>,
      <<>>,
      <<" ", " ">> }

InitAggressive ==
    /\ pc = "start"
    /\ content \in SeqsUpTo(AggressivePool, MaxAggressiveLines)
    /\ file = GitignoreFile_new
    /\ optimized = GitignoreFile_new
    /\ reoptimized = GitignoreFile_new
    /\ duplicates = <<>>
    /\ aggressive = GitignoreFile_new
    /\ with_conflicts = NoConflictsResult
    /\ file_analysis = GitignoreAnalysis_new
    /\ NoPair
    /\ NoText
    /\ NoCategorize
    /\ NoRun

SpecAggressive == InitAggressive /\ [][Next]_vars

(***************************************************************************)
(* SpecAnalyze: the runs of Spec on files made of the lines of             *)
(* test_analyze_gitignore.                                                 *)
(***************************************************************************)
AnalyzePool ==
    { <<"*", ".", "l", "o", "g">>,
      <<"b", "u", "i", "l", "d", "/">>,
      <<"!", "d", "e", "b", "u", "g", ".", "l", "o", "g">>,
      <<"!", "*", ".", "l", "o", "g">>,
      <<"*", ".", "l", "o", "g", "/">>,
      <<"!", "*", ".", "l", "o", "g", "/">>,
      <<"#", " ", "c", "o", "m", "m", "e", "n", "t">> }

InitAnalyze ==
    /\ pc = "start"
    /\ content \in SeqsUpTo(AnalyzePool, MaxAnalyzeLines)
    /\ file = GitignoreFile_new
    /\ optimized = GitignoreFile_new
    /\ reoptimized = GitignoreFile_new
    /\ duplicates = <<>>
    /\ aggressive = GitignoreFile_new
    /\ with_conflicts = NoConflictsResult
    /\ file_analysis = GitignoreAnalysis_new
    /\ NoPair
    /\ NoText
    /\ NoCategorize
    /\ NoRun

SpecAnalyze == InitAnalyze /\ [][Next]_vars

(***************************************************************************)
(* SpecText: a raw text is split into lines, parsed and rendered again.    *)
(***************************************************************************)
\* The characters of a raw text.
TextChars == {"a", "#", "\\", " ", " ", "\n", "\r"}

InitText ==
    /\ pc = "text"
    /\ text \in SeqsUpTo(TextChars, MaxTextLen)
    /\ rendered = <<>>
    /\ NoFile
    /\ NoPair
    /\ NoCategorize
    /\ NoRun

ParseText ==
    /\ pc = "text"
    /\ content' = lines(text)
    /\ file' = parse_gitignore(lines(text))
    /\ pc' = "text_parsed"
    /\ UNCHANGED <<text, rendered, duplicates, optimized, reoptimized,
                   aggressive, with_conflicts>>
    /\ UNCHANGED pairVars
    /\ UNCHANGED <<categorizeVars, runVars>>
    /\ UNCHANGED file_analysis

Render ==
    /\ pc = "text_parsed"
    /\ rendered' = to_string(file)
    /\ pc' = "rendered"
    /\ UNCHANGED <<text, fileVars, pairVars>>
    /\ UNCHANGED <<categorizeVars, runVars>>

NextText == ParseText \/ Render

SpecText == InitText /\ [][NextText]_vars

(***************************************************************************)
(* SpecPair: the analyzer's predicates applied to a pair of patterns.      *)
(***************************************************************************)
InitPair ==
    /\ pc = "pair"
    /\ pattern1 \in SeqsUpTo(PatternChars, MaxPatLen) \cup PaddedPatterns
    /\ pattern2 \in SeqsUpTo(PatternChars, MaxPatLen) \cup PaddedPatterns
    /\ equivalent = FALSE
    /\ conflicting = FALSE
    /\ NoFile
    /\ NoText
    /\ NoCategorize
    /\ NoRun

Compare ==
    /\ pc = "pair"
    /\ equivalent' = are_equivalent(PatternAnalyzer_default, pattern1, pattern2)
    /\ conflicting' = are_conflicting(PatternAnalyzer_default, pattern1, pattern2)
    /\ pc' = "compared"
    /\ UNCHANGED <<pattern1, pattern2, fileVars, textVars>>
    /\ UNCHANGED <<categorizeVars, runVars>>

NextPair == Compare

SpecPair == InitPair /\ [][NextPair]_vars

(***************************************************************************)
(* SpecCase: two patterns that differ only in letter case are compared,    *)
(* then optimized as a two-line file.                                      *)
(***************************************************************************)
\* The characters of the patterns compared with their case variants.
CaseChars == {"a", "A", "b", "B", "/", "!"}

InitCase ==
    /\ pc = "pair"
    /\ pattern1 \in SeqsUpTo(CaseChars, MaxCaseLen) \cup PaddedPatterns
    /\ pattern2 \in SeqsUpTo(CaseChars, MaxCaseLen) \cup PaddedPatterns
    /\ pattern1 # pattern2
    /\ to_lowercase(pattern1) = to_lowercase(pattern2)
    /\ equivalent = FALSE
    /\ conflicting = FALSE
    /\ NoFile
    /\ NoText
    /\ NoCategorize
    /\ NoRun

\* parse_gitignore and optimize_gitignore on the text "pattern1\npattern2".
OptimizePair ==
    /\ pc = "compared"
    /\ content' = lines(pattern1 \o <<"\n">> \o pattern2)
    /\ file' = parse_gitignore(content')
    /\ optimized' = optimize_gitignore(file')
    /\ pc' = "pair_optimized"
    /\ UNCHANGED <<duplicates, reoptimized, aggressive, with_conflicts>>
    /\ UNCHANGED <<pairVars, textVars>>
    /\ UNCHANGED <<categorizeVars, runVars>>
    /\ UNCHANGED file_analysis

NextCase == Compare \/ OptimizePair

SpecCase == InitCase /\ [][NextCase]_vars

(***************************************************************************)
(* SpecCategorize: every categorizer instance categorizes one pattern.     *)
(* The maps of an instance are HashMaps, iterated in any order of their    *)
(* keys; categorize_pattern iterates each map at most once, so the order   *)
(* of a map is drawn where its loop runs.                                  *)
(***************************************************************************)
InitCategorize ==
    /\ pc = "categorize"
    /\ input_pattern \in CategorizePool
    /\ positions = [i \in Instances |-> "os"]
    /\ categories = [i \in Instances |-> NotCategorized]
    /\ NoFile
    /\ NoPair
    /\ NoText
    /\ NoRun

\* One for-loop of categorize_pattern(input_pattern), run by instance i over
\* map: it returns variant[key] for the first key of the iteration with a
\* matching pattern, and falls through to the next check when there is none.
CheckMap(i, position, map, orders, variant) ==
    /\ pc = "categorize"
    /\ positions[i] = position
    /\ \E matching \in {matching_keys(map, trim(input_pattern))} :
           \E order \in orders :
               LET found == first_match(order, matching)
               IN IF found # <<>>
                  THEN /\ categories' = [categories EXCEPT ![i] = variant[found[1]]]
                       /\ positions' = [positions EXCEPT ![i] = "returned"]
                  ELSE /\ positions' = [positions EXCEPT ![i] = next_check(position)]
                       /\ UNCHANGED categories
    /\ UNCHANGED <<pc, input_pattern, fileVars, pairVars, textVars, runVars>>

CheckOs(i) ==
    CheckMap(i, "os", os_patterns, os_orders,
             [os \in DOMAIN os_patterns |-> OperatingSystem(os)])

CheckLanguage(i) ==
    CheckMap(i, "language", language_patterns, language_orders,
             [language \in DOMAIN language_patterns |-> Language(language)])

CheckTool(i) ==
    CheckMap(i, "tool", tool_patterns, tool_orders,
             [tool \in DOMAIN tool_patterns |-> Tool(tool)])

CheckFramework(i) ==
    CheckMap(i, "framework", framework_patterns, framework_orders,
             [framework \in DOMAIN framework_patterns |-> Framework(framework)])

\* The end of categorize_pattern: the custom heuristic, else Uncategorized.
CheckCustom(i) ==
    /\ pc = "categorize"
    /\ positions[i] = "custom"
    /\ categories' = [categories EXCEPT ![i] =
           IF is_custom_pattern(trim(input_pattern))
           THEN Custom("Project-specific")
           ELSE Uncategorized]
    /\ positions' = [positions EXCEPT ![i] = "returned"]
    /\ UNCHANGED <<pc, input_pattern, fileVars, pairVars, textVars, runVars>>

NextCategorize ==
    \E i \in Instances :
        \/ CheckOs(i)
        \/ CheckLanguage(i)
        \/ CheckTool(i)
        \/ CheckFramework(i)
        \/ CheckCustom(i)

SpecCategorize == InitCategorize /\ [][NextCategorize]_vars

(***************************************************************************)
(* SpecRun: one call of run(args), a step for each part of it that ends    *)
(* in a call that can fail: reading and reporting, the backup, the write.  *)
(***************************************************************************)
\* The characters of the file that run reads.
RunChars == {"a", "\n"}

\* The content of an output file that is there before run.
OldText == <<"o">>

InitRun ==
    /\ pc = "run"
    /\ args \in [file : {<<>>, <<PathBuf_from("custom", "gitignore")>>},
                 output : {<<>>, <<PathBuf_from("out", "gitignore")>>},
                 backup : BOOLEAN,
                 dry_run : BOOLEAN,
                 verbose : BOOLEAN,
                 mode : {"Standard", "Aggressive", "Conservative"}]
    /\ \E input \in {<<>>} \cup {<<t>> : t \in SeqsUpTo(RunChars, MaxRunTextLen)},
          old \in {<<>>, <<OldText>>} :
           fs = [path \in Paths |->
                    IF path = input_file(args) THEN input
                    ELSE IF path = output_file(args) THEN old
                    ELSE <<>>]
    /\ initial_fs = fs
    /\ effects = <<>>
    /\ error = "None"
    /\ NoFile
    /\ NoPair
    /\ NoText
    /\ NoCategorize

\* run up to its test of dry_run: print_mode, read_gitignore_file,
\* parse_gitignore, find_duplicates, the optimizer of the mode, print_results.
ReadAndReport ==
    /\ pc = "run"
    /\ LET printed == IF args.verbose THEN <<"print_mode">> ELSE <<>>
       IN \E read_ok \in BOOLEAN :
              IF ~exists(fs, input_file(args)) \/ ~read_ok
              THEN /\ error' = "read_gitignore_file"
                   /\ effects' = printed
                   /\ pc' = "err"
                   /\ UNCHANGED fileVars
              ELSE /\ content' = lines(fs[input_file(args)][1])
                   /\ file' = parse_gitignore(content')
                   /\ duplicates' = find_duplicates(file')
                   /\ optimized' = optimize_by_mode(args.mode, file')
                   /\ effects' = printed \o <<"print_results">>
                   /\ pc' = IF returns_before_writing(args) THEN "ok" ELSE "reported"
                   /\ UNCHANGED <<error, reoptimized, aggressive, with_conflicts, file_analysis>>
    /\ UNCHANGED <<args, fs, initial_fs>>
    /\ UNCHANGED <<pairVars, textVars, categorizeVars>>

\* The backup of run: create_backup and print_backup.  An fs::copy that
\* fails does so before it creates the backup file, or leaves any part of
\* the text in it.
CreateBackup ==
    /\ pc = "reported"
    /\ IF should_backup(args)
       THEN \E copy_ok \in BOOLEAN :
                IF exists(fs, input_file(args)) /\ ~copy_ok
                THEN /\ \E n \in 0..Len(fs[input_file(args)][1]) :
                            fs' \in {fs, [fs EXCEPT ![with_extension(input_file(args), "backup")] =
                                             <<SubSeq(fs[input_file(args)][1], 1, n)>>]}
                     /\ error' = "create_backup"
                     /\ pc' = "err"
                     /\ UNCHANGED effects
                ELSE /\ fs' = create_backup(fs, input_file(args))
                     /\ effects' = effects \o <<"create_backup">>
                                   \o (IF args.verbose THEN <<"print_backup">> ELSE <<>>)
                     /\ pc' = "backed_up"
                     /\ UNCHANGED error
       ELSE /\ pc' = "backed_up"
            /\ UNCHANGED <<fs, effects, error>>
    /\ UNCHANGED <<args, initial_fs>>
    /\ UNCHANGED <<fileVars, pairVars, textVars, categorizeVars>>

\* The end of run: to_string, write_gitignore_file and print_success.  A
\* write of the temporary file that fails leaves any part of the text in it;
\* a rename that fails is followed by the removal of the temporary file.
WriteOutput ==
    /\ pc = "backed_up"
    /\ LET optimized_content == to_string(optimized)
           temp_path == with_extension(output_file(args), "tmp")
       IN \/ /\ fs' = write_gitignore_file(fs, output_file(args), optimized_content)
             /\ effects' = effects \o <<"write_gitignore_file", "print_success">>
             /\ pc' = "ok"
             /\ UNCHANGED error
          \/ /\ \E n \in 0..Len(optimized_content) :
                    fs' \in {fs, [fs EXCEPT ![temp_path] =
                                     <<SubSeq(optimized_content, 1, n)>>]}
             /\ error' = "write_gitignore_file"
             /\ pc' = "err"
             /\ UNCHANGED effects
          \/ /\ fs' = [fs EXCEPT ![temp_path] = <<>>]
             /\ error' = "write_gitignore_file"
             /\ pc' = "err"
             /\ UNCHANGED effects
    /\ UNCHANGED <<args, initial_fs>>
    /\ UNCHANGED <<fileVars, pairVars, textVars, categorizeVars>>

NextRun == ReadAndReport \/ CreateBackup \/ WriteOutput

SpecRun == InitRun /\ [][NextRun]_vars

(***************************************************************************)
(* Vocabulary of the properties.                                           *)
(***************************************************************************)
Default == PatternAnalyzer_default

\* The stored pattern string of entry k of f.
PatternAt(f, k) == f.entries[k].entry_type.text

\* The positions of the Pattern entries of f.
PatternPositions(f) == {k \in 1..Len(f.entries) : is_pattern(f.entries[k])}

\* Entry k of the parsed file is an entry of the optimized file.
Kept(k) == \E a \in 1..Len(optimized.entries) : optimized.entries[a] = file.entries[k]

\* Entry i of the parsed file is in the optimized file before entry j.
KeptInOrder(i, j) ==
    \E a, b \in 1..Len(optimized.entries) :
        /\ a < b
        /\ optimized.entries[a] = file.entries[i]
        /\ optimized.entries[b] = file.entries[j]

\* The number of Pattern entries of f that store the string p.
Occurrences(f, p) == Cardinality({k \in PatternPositions(f) : PatternAt(f, k) = p})

IsNonPattern(entry) == ~is_pattern(entry)

\* Pattern entry k of the parsed file is equivalent to no pattern entry before it.
FirstEncountered(k) ==
    \A j \in PatternPositions(file) :
        j < k => ~are_equivalent(Default, PatternAt(file, k), PatternAt(file, j))

\* b is a with one "/" added at the end or at the front.
OneSlashAdded(a, b) == b = a \o <<"/">> \/ b = <<"/">> \o a

\* The one-hop rule on two base patterns.
OneHop(a, b) == a = b \/ OneSlashAdded(a, b) \/ OneSlashAdded(b, a)

Normalized(p) == normalize_pattern(Default, p)

\* s without its first character, if it has one.
Rest(s) == IF s = <<>> THEN <<>> ELSE Tail(s)

IsNegation(p) == starts_with(Normalized(p), "!")

Base(p) == IF IsNegation(p) THEN Tail(Normalized(p)) ELSE Normalized(p)

(***************************************************************************)
(* Properties of the optimizer (Spec).                                     *)
(***************************************************************************)
\* C1: standard optimization is idempotent: optimizing the optimized file
\* gives the same entry sequence (original text, type, line number).
C1_Idempotent ==
    pc = "reoptimized" => reoptimized.entries = optimized.entries

\* A run in which the first optimization dropped a pattern and kept two.
C1_Witness ==
    /\ pc = "reoptimized"
    /\ Len(optimized.entries) < Len(file.entries)
    /\ Cardinality(PatternPositions(optimized)) >= 2

\* C2: when the input holds a pattern p and its exact negation !p, the
\* output holds one entry for p and one entry for !p.
C2_NegationKept ==
    pc = "optimized" =>
        \A i, j \in PatternPositions(file) :
            PatternAt(file, j) = <<"!">> \o PatternAt(file, i) =>
                /\ Occurrences(optimized, PatternAt(file, i)) = 1
                /\ Occurrences(optimized, PatternAt(file, j)) = 1

\* C3: the Comment and Blank entries of the output are those of the input,
\* unchanged and in the same order, duplicates included.
C3_CommentsConserved ==
    pc = "optimized" =>
        SelectSeq(optimized.entries, IsNonPattern) = SelectSeq(file.entries, IsNonPattern)

\* An input with the same comment twice and a pattern.
C3_Witness ==
    /\ pc = "optimized"
    /\ \E i, j \in 1..Len(file.entries) :
           /\ i < j
           /\ is_comment(file.entries[i])
           /\ file.entries[i].entry_type = file.entries[j].entry_type
    /\ PatternPositions(file) # {}

\* C4 as stated: any two non-equivalent pattern entries p1 before p2 of the
\* input are both in the output, p1 before p2.
C4_OrderPreservedAsStated ==
    pc = "optimized" =>
        \A i, j \in PatternPositions(file) :
            (i < j /\ ~are_equivalent(Default, PatternAt(file, i), PatternAt(file, j)))
                => KeptInOrder(i, j)

\* C4 amended: two non-equivalent pattern entries p1 before p2 of the input,
\* neither of them equivalent to a pattern entry before it, are both in the
\* output, p1 before p2.
C4_OrderPreserved ==
    pc = "optimized" =>
        \A i, j \in PatternPositions(file) :
            (/\ i < j
             /\ ~are_equivalent(Default, PatternAt(file, i), PatternAt(file, j))
             /\ FirstEncountered(i)
             /\ FirstEncountered(j))
                => KeptInOrder(i, j)

\* Two first-encountered patterns around a dropped one.
C4_Witness ==
    /\ pc = "optimized"
    /\ \E i, j, k \in PatternPositions(file) :
           /\ i < k /\ k < j
           /\ FirstEncountered(i)
           /\ FirstEncountered(j)
           /\ ~Kept(k)
           /\ KeptInOrder(i, j)

\* C5: for the input "/x" followed by "x", both entries are in the output,
\* in input order.
C5_RootAndRelativeKept ==
    (/\ pc = "optimized"
     /\ Len(file.entries) = 2
     /\ PatternPositions(file) = {1, 2}
     /\ PatternAt(file, 1) = <<"/">> \o PatternAt(file, 2))
        => optimized.entries = file.entries

\* C6: a pattern entry is dropped only if an earlier entry stores the
\* identical pattern string.
C6_OnlyExactDuplicatesDropped ==
    pc = "optimized" =>
        \A k \in PatternPositions(file) :
            ~Kept(k) => \E j \in PatternPositions(file) :
                            j < k /\ PatternAt(file, j) = PatternAt(file, k)

\* C7: a pattern entry is kept if and only if it is equivalent to no pattern
\* kept before it; so the kept patterns are pairwise non-equivalent and every
\* dropped pattern is equivalent to an earlier kept one.
C7_DedupRule ==
    pc = "optimized" =>
        /\ \A k \in PatternPositions(file) :
               Kept(k) <=>
                   ~\E j \in PatternPositions(file) :
                        /\ j < k
                        /\ Kept(j)
                        /\ are_equivalent(Default, PatternAt(file, k), PatternAt(file, j))
        /\ \A a, b \in PatternPositions(optimized) :
               a # b => ~are_equivalent(Default, PatternAt(optimized, a),
                                        PatternAt(optimized, b))

\* A kept pattern that is equivalent to an earlier, dropped pattern.
C7_Witness ==
    /\ pc = "optimized"
    /\ \E j, k \in PatternPositions(file) :
           /\ j < k
           /\ ~Kept(j)
           /\ Kept(k)
           /\ are_equivalent(Default, PatternAt(file, k), PatternAt(file, j))

(***************************************************************************)
(* Properties of the analyzer's predicates (SpecPair).                     *)
(***************************************************************************)
\* C8: are_equivalent and are_conflicting are symmetric in their arguments.
C8_Symmetric ==
    pc = "compared" =>
        /\ equivalent = are_equivalent(Default, pattern2, pattern1)
        /\ conflicting = are_conflicting(Default, pattern2, pattern1)

\* An equivalent pair whose first pattern is the second plus a trailing slash.
C8_Witness ==
    /\ pc = "compared"
    /\ equivalent
    /\ Normalized(pattern1) = Normalized(pattern2) \o <<"/">>
    /\ Normalized(pattern2) # <<>>

\* C9: two non-negated patterns are equivalent exactly when their normalized
\* forms are identical or one is the other with one trailing or one leading
\* slash added; forms that differ by a leading and a trailing slash are not.
C9_OneHopEquivalence ==
    (pc = "compared" /\ ~IsNegation(pattern1) /\ ~IsNegation(pattern2)) =>
        LET n1 == Normalized(pattern1)
            n2 == Normalized(pattern2)
        IN /\ equivalent <=> OneHop(n1, n2)
           /\ (n1 # n2 /\ \E x \in {Rest(n1)} : n1 = <<"/">> \o x /\ n2 = x \o <<"/">>)
                  => ~equivalent
           /\ (n2 # <<>> /\ n1 = <<"/">> \o n2 \o <<"/">>) => ~equivalent

\* Two patterns that are not equivalent though both are equivalent to a third.
C9_Witness ==
    /\ pc = "compared"
    /\ ~IsNegation(pattern1) /\ ~IsNegation(pattern2)
    /\ ~equivalent
    /\ \E x \in {Rest(pattern1)} :
           /\ x # <<>>
           /\ pattern1 = <<"/">> \o x
           /\ pattern2 = x \o <<"/">>
           /\ are_equivalent(Default, pattern1, x)
           /\ are_equivalent(Default, x, pattern2)

\* C10: two patterns conflict exactly when one of them is a negation, the
\* other is not, and their base forms are equal or one trailing or one
\* leading slash apart.
C10_ConflictRule ==
    pc = "compared" =>
        (conflicting <=>
            /\ IsNegation(pattern1) # IsNegation(pattern2)
            /\ OneHop(Base(pattern1), Base(pattern2)))

\* A conflict between a directory pattern and the negation of its file form.
C10_Witness ==
    /\ pc = "compared"
    /\ conflicting
    /\ IsNegation(pattern2)
    /\ Base(pattern1) = Base(pattern2) \o <<"/">>
    /\ Base(pattern2) # <<>>

(***************************************************************************)
(* Properties of the conflict-aware variant, the parser, the statistics    *)
(* and the duplicate report.                                               *)
(***************************************************************************)
\* The files computed so far in a run of Spec.
OutputsSoFar ==
    (IF pc \in {"optimized", "reoptimized"} THEN {optimized} ELSE {})
    \cup (IF pc = "reoptimized" THEN {reoptimized} ELSE {})
    \cup (IF pc = "aggressive" THEN {aggressive} ELSE {})
    \cup (IF pc = "with_conflicts" THEN {with_conflicts.optimized} ELSE {})

\* C11: the file returned by optimize_gitignore_with_conflicts has the entry
\* sequence of optimize_gitignore, and every negated pattern of the input is
\* still a pattern of it.
C11_ConflictsVariantKeepsNegations ==
    pc = "with_conflicts" =>
        /\ with_conflicts.optimized.entries = optimize_gitignore(file).entries
        /\ \A k \in PatternPositions(file) :
               starts_with(PatternAt(file, k), "!") =>
                   Occurrences(with_conflicts.optimized, PatternAt(file, k)) >= 1

\* C12: rendering the parse of a text gives the text back, but for at most
\* one final newline.
C12_RoundTrip ==
    pc = "rendered" =>
        \/ rendered = text
        \/ ends_with(text, "\n") /\ rendered = SubSeq(text, 1, Len(text) - 1)

AllWhitespace(line) == \A i \in 1..Len(line) : is_whitespace(line[i])

\* C13: a line that is empty or all whitespace is Blank; otherwise a line
\* whose first character is "#" is a Comment holding the whole line; every
\* other line is a Pattern.
C13_LineClassification ==
    pc \in {"text_parsed", "rendered"} =>
        /\ Len(file.entries) = Len(content)
        /\ \A k \in 1..Len(content) :
               LET line == content[k]
                   entry_type == file.entries[k].entry_type
               IN IF AllWhitespace(line) THEN entry_type = Blank
                  ELSE IF line[1] = "#" THEN entry_type = Comment(line)
                  ELSE entry_type.tag = "Pattern"

\* A Pattern line that starts with an escaped "#" and one with a blank before "#".
C13_Witness ==
    /\ pc = "text_parsed"
    /\ \E k \in PatternPositions(file) :
           Len(content[k]) >= 2 /\ content[k][1] = "\\" /\ content[k][2] = "#"
    /\ \E k \in PatternPositions(file) :
           Len(content[k]) >= 2 /\ content[k][1] = " " /\ content[k][2] = "#"

\* The number of backslashes that immediately precede position i of line.
BackslashRun(line, i) ==
    Cardinality({n \in 1..(i - 1) : \A j \in (i - n)..(i - 1) : line[j] = "\\"})

\* The positions of the "#" of line that no backslash escapes.
UnescapedHashes(line) ==
    {i \in 1..Len(line) : line[i] = "#" /\ BackslashRun(line, i) % 2 = 0}

\* line cut just before its first unescaped "#".
BeforeFirstUnescapedHash(line) ==
    IF UnescapedHashes(line) = {} THEN line
    ELSE SubSeq(line, 1, (CHOOSE i \in UnescapedHashes(line) :
                              \A j \in UnescapedHashes(line) : i <= j) - 1)

\* C14: the stored pattern of a Pattern line is the line cut just before its
\* first unescaped "#", backslashes kept; original holds the whole line.
C14_InlineCommentRemoved ==
    pc \in {"text_parsed", "rendered"} =>
        \A k \in PatternPositions(file) :
            /\ file.entries[k].original = content[k]
            /\ PatternAt(file, k) = BeforeFirstUnescapedHash(content[k])

\* A pattern that keeps an escaped "#" and loses an inline comment.
C14_Witness ==
    /\ pc = "text_parsed"
    /\ \E k \in PatternPositions(file) :
           /\ PatternAt(file, k) # content[k]
           /\ contains(PatternAt(file, k), "#")

LineNumbersAscending(f) ==
    \A a, b \in 1..Len(f.entries) :
        a < b => f.entries[a].line_number < f.entries[b].line_number

EntriesOfInput(f) ==
    \A a \in 1..Len(f.entries) :
        /\ f.entries[a].line_number \in 1..Len(file.entries)
        /\ f.entries[a] = file.entries[f.entries[a].line_number]

\* C15: the k-th entry of the parsed file has line number k, one entry per
\* line; in the output of every optimize variant the line numbers ascend
\* strictly and each entry is the input entry with that line number.
C15_LineOrder ==
    pc # "start" =>
        /\ Len(file.entries) = Len(content)
        /\ \A k \in 1..Len(content) : file.entries[k].line_number = k
        /\ \A f \in OutputsSoFar : LineNumbersAscending(f) /\ EntriesOfInput(f)

\* An aggressive run that dropped an entry between two kept ones.
C15_Witness ==
    /\ pc = "aggressive"
    /\ \E a \in 1..(Len(aggressive.entries) - 1) :
           aggressive.entries[a + 1].line_number > aggressive.entries[a].line_number + 1

CountEntries(f, tag) ==
    Cardinality({k \in 1..Len(f.entries) : f.entries[k].entry_type.tag = tag})

StatsConsistent(f) ==
    /\ f.stats.total_lines = Len(f.entries)
    /\ f.stats.pattern_lines = CountEntries(f, "Pattern")
    /\ f.stats.comment_lines = CountEntries(f, "Comment")
    /\ f.stats.blank_lines = CountEntries(f, "Blank")
    /\ f.stats.total_lines =
           f.stats.pattern_lines + f.stats.comment_lines + f.stats.blank_lines

\* C16: in the parsed file and in the output of every optimize variant the
\* statistics equal the counts of the entries, and the three counts add up
\* to total_lines.
C16_StatsConsistent ==
    /\ pc # "start" => StatsConsistent(file)
    /\ \A f \in OutputsSoFar : StatsConsistent(f)

\* An output with a pattern, a comment and a blank line.
C16_Witness ==
    /\ pc = "optimized"
    /\ optimized.stats.pattern_lines >= 1
    /\ optimized.stats.comment_lines >= 1
    /\ optimized.stats.blank_lines >= 1

\* C17: the keys of find_duplicates are the pattern strings stored by two or
\* more Pattern entries, compared as strings; each is mapped to the ascending
\* list of all the line numbers where it occurs.
C17_DuplicateReport ==
    pc # "start" =>
        /\ DOMAIN duplicates =
               {PatternAt(file, k) : k \in {i \in PatternPositions(file) :
                                                Occurrences(file, PatternAt(file, i)) >= 2}}
        /\ \A p \in DOMAIN duplicates :
               /\ \A a, b \in 1..Len(duplicates[p]) :
                      a < b => duplicates[p][a] < duplicates[p][b]
               /\ {duplicates[p][a] : a \in 1..Len(duplicates[p])} =
                      {k \in PatternPositions(file) : PatternAt(file, k) = p}

\* A reported pattern beside a pattern that is equivalent to it but another
\* string, and so no key of the report.
C17_Witness ==
    /\ pc = "parsed"
    /\ \E p \in DOMAIN duplicates :
           \E k \in PatternPositions(file) :
               /\ PatternAt(file, k) # p
               /\ Normalized(PatternAt(file, k)) = Normalized(p)
               /\ PatternAt(file, k) \notin DOMAIN duplicates

\* C20: two patterns that differ only in letter case are not equivalent, and
\* optimize_gitignore keeps both of them, in input order.
C20_CaseSensitive ==
    /\ pc \in {"compared", "pair_optimized"} => ~equivalent
    /\ pc = "pair_optimized" =>
           /\ Len(optimized.entries) = 2
           /\ optimized.entries[1].original = pattern1
           /\ optimized.entries[2].original = pattern2
           /\ optimized.entries = file.entries

\* Two directory patterns that differ only in case went through the optimizer.
C20_Witness ==
    /\ pc = "pair_optimized"
    /\ pattern1 # pattern2
    /\ to_lowercase(pattern1) = to_lowercase(pattern2)
    /\ ends_with(pattern1, "/")
    /\ Len(optimized.entries) = 2

(***************************************************************************)
(* Properties of the categorizer (SpecCategorize).                         *)
(***************************************************************************)
\* Some known pattern of some key of map matches the trimmed input pattern.
GroupMatches(map) ==
    \E key \in DOMAIN map :
        \E k \in 1..Len(map[key]) : pattern_matches(trim(input_pattern), map[key][k])

\* The group the stated precedence gives to the input pattern.
GroupByPrecedence ==
    IF GroupMatches(os_patterns) THEN "OperatingSystem"
    ELSE IF GroupMatches(language_patterns) THEN "Language"
    ELSE IF GroupMatches(tool_patterns) THEN "Tool"
    ELSE IF GroupMatches(framework_patterns) THEN "Framework"
    ELSE IF is_custom_pattern(trim(input_pattern)) THEN "Custom"
    ELSE "Uncategorized"

\* C18: categorize_pattern always returns, and what it returns is of the
\* first group that matches in the order OperatingSystem, Language, Tool,
\* Framework, then Custom("Project-specific") if the custom heuristic holds,
\* else Uncategorized.
C18_GroupPrecedence ==
    pc = "categorize" =>
        \A i \in Instances :
            /\ positions[i] \in {"os", "language", "tool", "framework", "custom", "returned"}
            /\ positions[i] = "returned" =>
                   /\ categories[i].group = GroupByPrecedence
                   /\ categories[i].group = "Custom" =>
                          categories[i] = Custom("Project-specific")
                   /\ categories[i].group = "Uncategorized" =>
                          categories[i] = Uncategorized

\* A pattern that known patterns of the languages and of the tools match was
\* categorized.
C18_Witness ==
    /\ pc = "categorize"
    /\ positions[1] = "returned"
    /\ ~GroupMatches(os_patterns)
    /\ GroupMatches(language_patterns)
    /\ GroupMatches(tool_patterns)
    /\ categories[1].group = "Language"

\* C19: two categorizer instances, whatever the iteration orders of their
\* maps, return categories of the same group for the same pattern.
C19_GroupIndependentOfOrder ==
    pc = "categorize" =>
        \A i, j \in Instances :
            positions[i] = "returned" /\ positions[j] = "returned" =>
                categories[i].group = categories[j].group

\* Two instances whose iteration orders differ: they returned different names.
C19_Witness ==
    /\ pc = "categorize"
    /\ \A i \in Instances : positions[i] = "returned"
    /\ \E i, j \in Instances : categories[i].name # categories[j].name

(***************************************************************************)
(* Properties of run (SpecRun).                                            *)
(***************************************************************************)
Done(effect) == \E k \in 1..Len(effects) : effects[k] = effect

DoneBefore(first, second) ==
    \E a, b \in 1..Len(effects) : a < b /\ effects[a] = first /\ effects[b] = second

BackupPath == with_extension(input_file(args), "backup")

\* C21: in a dry run the file system stays as it was when run was entered:
\* no backup is created and no output is written, whatever the other flags.
C21_DryRunWritesNothing ==
    pc \in {"run", "reported", "backed_up", "ok", "err"} /\ args.dry_run =>
        /\ fs = initial_fs
        /\ ~Done("create_backup")
        /\ ~Done("write_gitignore_file")

\* A dry run with --backup and --output that reported a removal and returned Ok.
C21_Witness ==
    /\ pc = "ok"
    /\ args.dry_run
    /\ args.backup
    /\ args.output # <<>>
    /\ Done("print_results")
    /\ Len(optimized.entries) < Len(file.entries)

\* C22: when a call of run fails, no results have been printed, no backup or
\* output file has been created or changed, and the output file holds its
\* old content.
C22_ErrorBeforeAnyOutput ==
    error # "None" =>
        /\ ~Done("print_results")
        /\ fs[BackupPath] = initial_fs[BackupPath]
        /\ fs[output_file(args)] = initial_fs[output_file(args)]

\* C30: a run that returns Ok has created a backup exactly when it is not a
\* dry run, with or without --backup; the backup holds the input as it was
\* and is created before the output is written; if create_backup fails the
\* output is not written.
C30_BackupRule ==
    pc \in {"run", "reported", "backed_up", "ok", "err"} =>
        /\ pc = "ok" => (Done("create_backup") <=> ~args.dry_run)
        /\ Done("create_backup") =>
               /\ ~args.dry_run
               /\ fs[BackupPath] = initial_fs[input_file(args)]
        /\ Done("write_gitignore_file") =>
               DoneBefore("create_backup", "write_gitignore_file")
        /\ error = "create_backup" =>
               /\ ~Done("write_gitignore_file")
               /\ fs[output_file(args)] = initial_fs[output_file(args)]

\* A run without --backup and without --dry-run that wrote its output in
\* place, after the backup.
C30_Witness ==
    /\ pc = "ok"
    /\ ~args.backup
    /\ ~args.dry_run
    /\ args.output = <<>>
    /\ DoneBefore("create_backup", "write_gitignore_file")
    /\ fs[output_file(args)] # initial_fs[output_file(args)]

(***************************************************************************)
(* Properties of the aggressive variant (SpecAggressive).                  *)
(***************************************************************************)
\* C23: in the output of optimize_gitignore_aggressive the comments have
\* pairwise different trimmed texts, each being the first comment of the
\* input with its trimmed text; no two blank entries are adjacent; the pattern
\* entries are those of optimize_gitignore, in the same order.
C23_AggressiveOutput ==
    pc = "aggressive" =>
        LET out == aggressive.entries
        IN /\ \A a, b \in 1..Len(out) :
                  a # b /\ is_comment(out[a]) /\ is_comment(out[b]) =>
                      trim(out[a].entry_type.text) # trim(out[b].entry_type.text)
           /\ \A k \in 1..Len(file.entries) :
                  is_comment(file.entries[k]) =>
                      ((\E a \in 1..Len(out) : out[a] = file.entries[k])
                       <=> ~\E j \in 1..(k - 1) :
                               /\ is_comment(file.entries[j])
                               /\ trim(file.entries[j].entry_type.text)
                                      = trim(file.entries[k].entry_type.text))
           /\ \A a \in 1..(Len(out) - 1) : ~(is_blank(out[a]) /\ is_blank(out[a + 1]))
           /\ SelectSeq(out, is_pattern) = SelectSeq(optimize_gitignore(file).entries, is_pattern)

\* Two blank lines of the input with only a dropped comment between them,
\* dropped for an earlier comment that differs from it in trailing whitespace.
C23_Witness ==
    /\ pc = "aggressive"
    /\ \E k \in 1..(Len(file.entries) - 2) :
           /\ is_blank(file.entries[k])
           /\ is_comment(file.entries[k + 1])
           /\ is_blank(file.entries[k + 2])
           /\ \E j \in 1..(k - 1) :
                  /\ is_comment(file.entries[j])
                  /\ file.entries[j].entry_type # file.entries[k + 1].entry_type
           /\ ~\E a \in 1..Len(aggressive.entries) :
                  aggressive.entries[a].line_number \in {k + 1, k + 2}

(***************************************************************************)
(* Properties of analyze_gitignore (SpecAnalyze).                          *)
(***************************************************************************)
\* C24: for the file with the lines "*.log", "build/", "!debug.log" and
\* "# comment", analyze_gitignore reports 3 patterns, 1 negation pattern and
\* exactly one conflict, and has_conflicts() is true.
C24_AnalyzeScenario ==
    /\ pc = "analyzed"
    /\ content = << <<"*", ".", "l", "o", "g">>, <<"b", "u", "i", "l", "d", "/">>, <<"!", "d", "e", "b", "u", "g", ".", "l", "o", "g">>, <<"#", " ", "c", "o", "m", "m", "e", "n", "t">> >>
    => /\ file_analysis.total_patterns = 3
       /\ file_analysis.negation_patterns = 1
       /\ conflict_count(file_analysis) = 1
       /\ has_conflicts(file_analysis)

(***************************************************************************)
(* Properties of find_conflicts, of the kept count and of the report.      *)
(***************************************************************************)
\* The pattern strings handed to find_conflicts.
PatternStrings == pattern_strings_from(file.entries, 1)

\* The pairs of positions i < j whose patterns conflict.
ConflictingPositions ==
    {pair \in (1..Len(PatternStrings)) \X (1..Len(PatternStrings)) :
        /\ pair[1] < pair[2]
        /\ are_conflicting(Default, PatternStrings[pair[1]], PatternStrings[pair[2]])}

\* The rank of a pair of positions in the order by i, then j.
RankOf(pair) ==
    1 + Cardinality({other \in ConflictingPositions :
                        \/ other[1] < pair[1]
                        \/ other[1] = pair[1] /\ other[2] < pair[2]})

\* The result holds one pair for each conflicting pair of positions i < j, in
\* the order by i, then j, and nothing else.
OnePairPerPosition ==
    /\ Len(with_conflicts.conflicts) = Cardinality(ConflictingPositions)
    /\ \A pair \in ConflictingPositions :
           with_conflicts.conflicts[RankOf(pair)]
               = <<PatternStrings[pair[1]], PatternStrings[pair[2]]>>

\* No pair of pattern strings is reported twice or in both orientations.
NoPairOfPatternsTwice ==
    \A a, b \in 1..Len(with_conflicts.conflicts) :
        a # b =>
            /\ with_conflicts.conflicts[a] # with_conflicts.conflicts[b]
            /\ with_conflicts.conflicts[a]
                   # <<with_conflicts.conflicts[b][2], with_conflicts.conflicts[b][1]>>

\* C25, as stated: find_conflicts reports one pair for each conflicting pair
\* of positions i < j, ordered by i then j, and no pair of patterns more than
\* once or in both orientations.
C25_PairsOnceAsStated ==
    pc = "with_conflicts" => OnePairPerPosition /\ NoPairOfPatternsTwice

\* C25, amended: find_conflicts reports one pair for each conflicting pair of
\* positions i < j, ordered by i then j; no pair of patterns is reported more
\* than once or in both orientations when the input patterns are pairwise
\* different strings.
C25_PairsOnce ==
    pc = "with_conflicts" =>
        /\ OnePairPerPosition
        /\ (\A i, j \in 1..Len(PatternStrings) :
                i # j => PatternStrings[i] # PatternStrings[j])
           => NoPairOfPatternsTwice

\* Four different patterns, each of the first two conflicting with each of
\* the last two: the four pairs are reported in the order by i then j, which
\* is not the order by j then i.
C25_Witness ==
    /\ pc = "with_conflicts"
    /\ Len(PatternStrings) = 4
    /\ \A i, j \in 1..Len(PatternStrings) : i # j => PatternStrings[i] # PatternStrings[j]
    /\ ConflictingPositions = {<<1, 3>>, <<1, 4>>, <<2, 3>>, <<2, 4>>}
    /\ with_conflicts.conflicts[2] = <<PatternStrings[1], PatternStrings[4]>>
    /\ with_conflicts.conflicts[3] = <<PatternStrings[2], PatternStrings[3]>>

\* The number of Pattern entries of optimize_gitignore run on the given lines.
KeptPatterns(input_lines) ==
    optimize_gitignore(parse_gitignore(input_lines)).stats.pattern_lines

\* C26: every permutation of the input lines yields the same number of
\* pattern entries in the output of optimize_gitignore.
C26_KeptCountOrderIndependent ==
    pc = "optimized" =>
        \A order \in Permutations(1..Len(content)) :
            KeptPatterns([k \in 1..Len(content) |-> content[order[k]]])
                = optimized.stats.pattern_lines

\* C27: two categorizer instances, whatever the iteration orders of their
\* maps, return the same category, name included, for the same pattern.
C27_CategoryIndependentOfOrder ==
    pc = "categorize" =>
        \A i, j \in Instances :
            positions[i] = "returned" /\ positions[j] = "returned" =>
                categories[i] = categories[j]

\* C28: the pattern string of every Pattern entry of a parsed text is
\* accepted by validate_pattern.
C28_ParsedPatternsValid ==
    pc \in {"text_parsed", "rendered"} =>
        \A k \in PatternPositions(file) : validate_pattern(PatternAt(file, k))

\* The line numbers of the entries that optimize_gitignore removed.
RemovedLines == {k \in 1..Len(file.entries) : ~Kept(k)}

\* The line numbers of the duplicate report, but the first of each list.
SurplusLines ==
    UNION {{duplicates[p][k] : k \in 2..Len(duplicates[p])} : p \in DOMAIN duplicates}

\* All the line numbers of the duplicate report.
ReportedLines ==
    UNION {{duplicates[p][k] : k \in 1..Len(duplicates[p])} : p \in DOMAIN duplicates}

\* C29: optimize_gitignore removes as many entries as the
\* duplicate report has surplus occurrences, and the line number of every
\* removed entry is in the report.
C29_ReportAccountsForRemovals ==
    pc = "optimized" =>
        /\ Cardinality(RemovedLines) = Cardinality(SurplusLines)
        /\ RemovedLines \subseteq ReportedLines

====
